---- MODULE Spec2Model ----
(***************************************************************************)
(* AUBus ride-sharing coordination engine.                                 *)
(*                                                                         *)
(* Part I  : the server (src/server/server.py over src/server/database.py):*)
(*           one handler thread per connection, every database access      *)
(*           inside `with db_lock`.  Specification Spec.                   *)
(*           Specification SpecLock makes the threads and the lock         *)
(*           explicit.                                                     *)
(* Part II : the client connection multiplexer                             *)
(*           (src/client/api_client.py, class ApiClient).                  *)
(*           Specification SpecClient.                                     *)
(***************************************************************************)
EXTENDS Integers, Sequences, FiniteSets, TLC

(***************************************************************************)
(* Bounds of the model.                                                    *)
(***************************************************************************)
NThreads == 2          \* server handler threads (open connections)
MaxRides == 1          \* rows the rides table may grow to
MaxRatings == 2        \* rows the ratings table may grow to
MaxNow == 40           \* the clock stops advancing here (hours)
NCallers == 2          \* threads calling into one ApiClient
MaxCalls == 3          \* synchronous calls started on one ApiClient
MaxMsgs == 3           \* messages the server writes to one connection
MaxConns == 2          \* connections one ApiClient makes with connect()
MaxWrites == 3         \* writes of the peer of one connection
NWriters == 2          \* server threads writing to one connection
BufFrames == 1         \* frames the send buffer of a socket holds
MaxStored == 2         \* rows of the messages table SEND_MESSAGE writes
MaxChat == 2           \* chat messages the user sends
MaxDrawn == 2          \* rows of rides and of messages when list_contacts runs
NConns == 3            \* connections the server has accepted

(***************************************************************************)
(* Program constants.                                                      *)
(***************************************************************************)
RATING_WINDOW == 36    \* timedelta(hours=36)
WINDOW_MINUTES == 15   \* timedelta(minutes=15) in find_drivers
DAY_MINUTES == 1440    \* minutes in a day: .time() wraps past midnight
FETCH_LIMIT == 50      \* fetch_messages(user_id, partner_id, limit=50)

NULL == 0              \* SQL NULL / Python None for ids and timestamps
NoTime == -1           \* NULL timestamp (started_at, completed_at)

Users == {1, 2, 3}     \* users.id of the registered users
Threads == 1..NThreads
Conns == 1..NConns     \* the sockets accept() returned
Writers == 1..NWriters \* 1: the handler thread of the connection, 2: another one
RideIds == 1..MaxRides \* ride ids a request may name (existing or not)
TickSteps == {36, 37}  \* hours the clock advances by in one Tick
RatingValues == {2, 5} \* scores a client submits

(***************************************************************************)
(* Text.  A string is a tuple of one-character strings, so that lower(),   *)
(* replace() and strip() are computed and not assumed.                     *)
(***************************************************************************)
Lower(c) ==
    CASE c = "A" -> "a" [] c = "B" -> "b" [] c = "H" -> "h"
      [] c = "R" -> "r" [] c = "T" -> "t" [] c = "U" -> "u" [] OTHER -> c

LowerStr(s) == [i \in DOMAIN s |-> Lower(s[i])]

Replace(s, a, b) == [i \in DOMAIN s |-> IF s[i] = a THEN b ELSE s[i]]

RECURSIVE LStrip(_)
LStrip(s) == IF s # <<>> /\ Head(s) = " " THEN LStrip(Tail(s)) ELSE s

RECURSIVE RStrip(_)
RStrip(s) ==
    IF s # <<>> /\ s[Len(s)] = " " THEN RStrip(SubSeq(s, 1, Len(s) - 1)) ELSE s

Strip(s) == RStrip(LStrip(s))

\* norm_direction = (direction or "").lower().replace('_', ' ').strip()
NormDirection(direction) == Strip(Replace(LowerStr(direction), "_", " "))
\* norm_area = (passenger_area or "").lower().strip()
NormArea(area) == Strip(LowerStr(area))
\* lower(replace(s.direction, '_', ' ')) and lower(replace(s.area, '_', ' '))
SqlNorm(col) == LowerStr(Replace(col, "_", " "))

ToAUB == <<"t", "o", "_", "A", "U", "B">>
ToAub == <<"t", "o", " ", "a", "u", "b">>
Hamra == <<"H", "a", "m", "r", "a">>
HamraLow == <<"h", "a", "m", "r", "a">>
FromAUB == <<"f", "r", "o", "m", "_", "A", "U", "B">>
Bliss == <<"B", "l", "i", "s", "s">>
TO_AUB == <<"T", "O", "_", "A", "U", "B">>
RasBeirut == <<"R", "a", "s", "_", "B", "e", "i", "r", "u", "t">>
RasBeirutSp == <<"R", "a", "s", " ", "B", "e", "i", "r", "u", "t">>
RasBeirutLow == <<"r", "a", "s", " ", "b", "e", "i", "r", "u", "t">>

VARIABLES
    \* ---- Part I: server ----
    users,       \* users table: id -> [is_driver, min_rating]
    schedules,   \* schedules table: set of rows
    rides,       \* rides table: sequence of rows, rides[i] has id i
    offers,      \* ride_offers table: set of <<ride_id, driver_id>>
    ratings,     \* ratings table: sequence of rows (id = index)
    now,         \* datetime.utcnow(), in hours
    db_lock,     \* the thread holding db_lock, or NULL
    pc,          \* per handler thread: "idle" or "locked"
    req,         \* per handler thread: the request being handled
    snap,        \* per handler thread: ride = get_ride_by_id(ride_id)
    last,        \* what the latest step sent (NoMsg when it sent nothing)
    accepted_by, \* per ride id: the drivers answered ACCEPTED so far
    \* ---- Part II: one ApiClient and its connection ----
    connected,     \* self._connected
    reader,        \* the _recv_loop thread: "running" or "stopped"
    link,          \* the TCP connection: "up", or "down" once the peer closed
    send_lock,     \* the caller holding self._send_lock, or NULL
    wait_types,    \* self._wait_types
    wait_response, \* self._wait_response (NoneMsg for None)
    wait_event,    \* the flag of self._wait_event
    async_events,  \* self._async_events, oldest first
    cpc,           \* per caller: where it is in _send_and_wait
    call,          \* per caller: msg_type, expected and number of its call
    outcome,       \* per caller: what its call returned or raised
    outbox,        \* requests written to the socket, not yet read by the server
    inbox,         \* messages the server wrote, not yet read by the reader
    n_calls,       \* calls started so far
    n_msgs,        \* messages the server wrote so far
    session,       \* self.username and self.user_id (NULL: None)
    has_sock,      \* self._sock is not None
    old_reader,    \* the _recv_loop thread of the connection before this one
    n_conns,       \* connections connect() has made so far
    \* ---- calls of the matching engine ----
    query,         \* the arguments find_drivers is called with
    found,         \* what the call returned: [done, ids]
    \* ---- chat ----
    messages,      \* messages table: sequence of rows (id = index)
    contacts,      \* per user: what list_contacts(user) returned: [done, ids]
    fetched,       \* what the latest fetch_messages returned: [done, rows]
    \* ---- presence ----
    sock,          \* per connection: "open" or "closed"
    username,      \* per connection: handle_client's `username` (NULL: None)
    clients,       \* the clients dict, in insertion order:
                   \* rows [username, conn, peer]
    \* ---- one direction of one connection, byte by byte ----
    wire,          \* bytes written to the socket, not yet returned by recv
    buf,           \* the buf of the recv_json call in progress
    written,       \* what was written so far, write by write
    returned,      \* what the recv_json calls returned or raised, in order
    sending,       \* per writing thread: the bytes its sendall has yet to write
    \* ---- the send buffers of the server's sockets ----
    room,          \* per connection: the frames its send buffer can take
    stuck,         \* per connection: the sendall its handler thread is in
    \* ---- the user interface thread of the client ----
    chat,          \* MessagesTab: what send_message did with each message
    drain,         \* the drain_events call in progress: [running, events]
    drained        \* the events the drain_events calls returned, in order

srvVars == <<users, schedules, rides, offers, ratings, now, db_lock, pc, req,
             snap, last, accepted_by>>
cliVars == <<connected, reader, link, send_lock, wait_types, wait_response,
             wait_event, async_events, cpc, call, outcome,
             outbox, inbox, n_calls, n_msgs>>
mtcVars == <<query, found>>
msgVars == <<messages, contacts, fetched>>
presVars == <<sock, username, clients>>
sesVars == <<session, has_sock, old_reader, n_conns>>
wireVars == <<wire, buf, written, returned, sending>>
drainVars == <<room, stuck>>
uiVars == <<chat, drain, drained>>
\* What a step of SpecLock's threads leaves alone besides the tables.
sideVars == <<cliVars, mtcVars, msgVars, presVars, sesVars, wireVars, drainVars, uiVars>>
\* What a step of the client leaves alone.
nonCliVars == <<srvVars, mtcVars, msgVars, presVars, sesVars, wireVars, drainVars, uiVars>>
vars == <<srvVars, cliVars, mtcVars, msgVars, presVars, sesVars, wireVars, drainVars, uiVars>>

(***************************************************************************)
(* Part I.  The database (src/server/database.py).                         *)
(***************************************************************************)
NoRide == [passenger_id |-> NULL, driver_id |-> NULL, status |-> "NONE",
           completed_at |-> NoTime]

\* SELECT ... FROM rides WHERE id=?   (None when there is no such row)
get_ride_by_id(ride_id) ==
    IF ride_id \in 1..Len(rides) THEN rides[ride_id] ELSE NoRide

\* SELECT ... FROM users WHERE id=?
get_user_by_id(user_id) == IF user_id \in Users THEN user_id ELSE NULL

RECURSIVE SumRatings(_)
SumRatings(idx) ==
    IF idx = {} THEN 0
    ELSE LET i == CHOOSE j \in idx : TRUE
         IN  ratings[i].rating + SumRatings(idx \ {i})

RatingRows(user_id, role) ==
    {i \in 1..Len(ratings) :
        ratings[i].rated_user_id = user_id /\ ratings[i].role = role}

\* AVG(rating) >= m with AVG of no row read as 0 ("avg or 0", COALESCE(..,0)).
\* The mean is compared exactly: sum >= m * count.
AvgAtLeast(user_id, role, m) ==
    LET idx == RatingRows(user_id, role)
    IN  IF idx = {} THEN 0 >= m
        ELSE SumRatings(idx) >= m * Cardinality(idx)

\* (datetime.strptime(day, "%A") + timedelta(days=1)).strftime("%A"):
\* strptime with only %A yields 1900-01-01, a Monday, whatever the day name.
next_day_str(day) == "Tuesday"

\* The window closed at its end: s.time <= time_plus_15.
InWindow_Closed(s, day, t) ==
    LET time_plus_15 == (t + WINDOW_MINUTES) % DAY_MINUTES
    IN  IF time_plus_15 < t
        THEN \/ (s.day = day /\ s.time >= t)
             \/ (s.day = "Tuesday" /\ s.time <= time_plus_15)
        ELSE s.day = day /\ s.time >= t /\ s.time <= time_plus_15

\* A schedule row is in the request's time window.
InWindow(s, day, t) ==
    LET time_plus_15 == (t + WINDOW_MINUTES) % DAY_MINUTES
    IN  IF time_plus_15 < t
        THEN \/ (s.day = day /\ s.time >= t)
             \/ (s.day = next_day_str(day) /\ s.time < time_plus_15)
        ELSE s.day = day /\ s.time >= t /\ s.time < time_plus_15

\* HAVING avg_rating >= ? left out: the drivers of every rating.
find_drivers_AnyRating(direction, day, t, passenger_area, min_rating) ==
    IF t = NoTime THEN {}
    ELSE {u \in Users :
            /\ users[u].is_driver
            /\ \E s \in schedules :
                 /\ s.user_id = u
                 /\ SqlNorm(s.direction) = NormDirection(direction)
                 /\ SqlNorm(s.area) = NormArea(passenger_area)
                 /\ InWindow(s, day, t)}

\* The ids of the drivers find_drivers returns.
find_drivers(direction, day, t, passenger_area, min_rating) ==
    IF t = NoTime THEN {}   \* time_str does not parse: return []
    ELSE {u \in Users :
            /\ users[u].is_driver
            /\ \E s \in schedules :
                 /\ s.user_id = u
                 /\ SqlNorm(s.direction) = NormDirection(direction)
                 /\ SqlNorm(s.area) = NormArea(passenger_area)
                 /\ InWindow(s, day, t)
            /\ AvgAtLeast(u, "driver", min_rating)}

\* INSERT INTO rides ... 'PENDING'; one ride_offers row per driver id.
create_ride_request(passenger_id, driver_ids) ==
    IF driver_ids = {}
    THEN UNCHANGED <<rides, offers>>
    ELSE /\ rides' = Append(rides, [passenger_id |-> passenger_id,
                                    driver_id |-> NULL, status |-> "PENDING",
                                    completed_at |-> NoTime])
         /\ offers' = offers \cup {<<Len(rides) + 1, d>> : d \in driver_ids}

\* The drivers accept_ride_request returns: the other holders of an offer.
other_driver_ids(ride_id, driver_id) ==
    {o[2] : o \in {x \in offers : x[1] = ride_id /\ x[2] # driver_id}}

\* UPDATE rides SET driver_id=?, status='ACCEPTED'; DELETE FROM ride_offers.
accept_ride_request(ride_id, driver_id) ==
    /\ rides' = [i \in DOMAIN rides |->
                   IF i = ride_id
                   THEN [rides[i] EXCEPT !.driver_id = driver_id,
                                         !.status = "ACCEPTED"]
                   ELSE rides[i]]
    /\ offers' = {o \in offers : o[1] # ride_id}

\* UPDATE rides SET status='STARTED', started_at=? WHERE id=?
start_ride(ride_id) ==
    rides' = [i \in DOMAIN rides |->
                IF i = ride_id THEN [rides[i] EXCEPT !.status = "STARTED"]
                ELSE rides[i]]

\* UPDATE rides SET status='COMPLETED', completed_at=? WHERE id=?
complete_ride(ride_id) ==
    rides' = [i \in DOMAIN rides |->
                IF i = ride_id
                THEN [rides[i] EXCEPT !.status = "COMPLETED",
                                      !.completed_at = now]
                ELSE rides[i]]

\* The UPDATE also clearing the driver: SET status=?, driver_id=NULL.
update_ride_status_ClearsDriver(ride_id, status) ==
    rides' = [i \in DOMAIN rides |->
                IF i = ride_id
                THEN [rides[i] EXCEPT !.status = status, !.driver_id = NULL]
                ELSE rides[i]]

\* The UPDATE restricted to rides still PENDING: WHERE id=? AND
\* status='PENDING'.
update_ride_status_OnlyPending(ride_id, status) ==
    rides' = [i \in DOMAIN rides |->
                IF i = ride_id /\ rides[i].status = "PENDING"
                THEN [rides[i] EXCEPT !.status = status]
                ELSE rides[i]]

\* UPDATE rides SET status=? WHERE id=?
update_ride_status(ride_id, status) ==
    rides' = [i \in DOMAIN rides |->
                IF i = ride_id THEN [rides[i] EXCEPT !.status = status]
                ELSE rides[i]]

\* SELECT id FROM ratings WHERE ride_id=? AND rater_user_id=?  (fetchone)
ExistingRating(ride_id, rater_user_id) ==
    {i \in 1..Len(ratings) :
        ratings[i].ride_id = ride_id /\ ratings[i].rater_user_id = rater_user_id}

\* The lookup of the existing row left out: always INSERT.
upsert_rating_AlwaysInsert(rated_user_id, rater_user_id, rating, role, ride_id) ==
    ratings' = Append(ratings,
        [rated_user_id |-> rated_user_id, rater_user_id |-> rater_user_id,
         rating |-> rating, role |-> role, ride_id |-> ride_id])

\* UPDATE the existing row, else INSERT a new one.
upsert_rating(rated_user_id, rater_user_id, rating, role, ride_id) ==
    LET existing == ExistingRating(ride_id, rater_user_id)
    IN  IF existing # {}
        THEN LET e == CHOOSE i \in existing : \A j \in existing : i <= j
             IN  ratings' = [ratings EXCEPT ![e].rated_user_id = rated_user_id,
                                            ![e].rating = rating,
                                            ![e].role = role]
        ELSE ratings' = Append(ratings,
                 [rated_user_id |-> rated_user_id,
                  rater_user_id |-> rater_user_id,
                  rating |-> rating, role |-> role, ride_id |-> ride_id])

\* Only the messages the user sent are looked at.
list_contacts_SentOnly(user_id) ==
    {messages[i].receiver_id :
        i \in {j \in DOMAIN messages : messages[j].sender_id = user_id}}

\* The ids of the users list_contacts returns: the other party of every ride
\* of the user that has both a passenger and a driver, and of every message
\* the user sent or received, when that party is a stored user.
list_contacts(user_id) ==
    LET ride_rows == {i \in DOMAIN rides :
                        /\ (rides[i].passenger_id = user_id
                             \/ rides[i].driver_id = user_id)
                        /\ rides[i].driver_id # NULL
                        /\ rides[i].passenger_id # NULL}
        message_rows == {i \in DOMAIN messages :
                           \/ messages[i].sender_id = user_id
                           \/ messages[i].receiver_id = user_id}
        ride_partners ==
            {IF rides[i].passenger_id = user_id THEN rides[i].driver_id
             ELSE rides[i].passenger_id : i \in ride_rows}
            \cup {IF messages[i].sender_id = user_id
                  THEN messages[i].receiver_id
                  ELSE messages[i].sender_id : i \in message_rows}
    IN  {partner_id \in ride_partners \ {NULL} :
            get_user_by_id(partner_id) # NULL}

(***************************************************************************)
(* Part I.  The request handlers (src/server/server.py).                   *)
(*                                                                         *)
(* handle_x(r, ride) is handler x run on request r, where ride is what     *)
(* `ride = get_ride_by_id(ride_id)` returned to it.  It sets the tables    *)
(* and `last`, the messages it sends: the response on the requester's      *)
(* connection and the pushes that send_to_username wrote to a connection.  *)
(* A push is [to, type, status, ride_id, driver_username, peer].  When a   *)
(* send raises, the exception leaves the handler: what was written to the  *)
(* database stays, the sends after it are not made.                        *)
(* A response sent right after `with db_lock` is left is part of the same  *)
(* step: it touches nothing another thread reads.                          *)
(***************************************************************************)
NoReq == [type |-> "NONE"]

\* find_drivers has not returned yet.
NoResult == [done |-> FALSE, ids |-> {}]

\* fetch_messages has not returned yet.
NoFetch == [done |-> FALSE, rows |-> <<>>]

\* No call of find_drivers to make.
NoQuery == [direction |-> <<>>, day |-> "NONE", time |-> NoTime,
            area |-> <<>>, min_rating |-> 0]
NoMsg == [req |-> NoReq, type |-> "NONE", status |-> "NONE", pushes |-> {},
          ride_id |-> NULL]

\* The response of the given type and status to request r, with its pushes.
Msg(r, type, status, pushes) ==
    [req |-> r, type |-> type, status |-> status, pushes |-> pushes,
     ride_id |-> NULL]

\* The (direction, day, time, area) of the BROADCAST_RIDE_REQUESTs sent.
Queries ==
    { [direction |-> ToAUB, day |-> "Monday", time |-> 480, area |-> Hamra],
      [direction |-> ToAub, day |-> "Monday", time |-> 1435, area |-> HamraLow],
      [direction |-> ToAUB, day |-> "Friday", time |-> 600, area |-> Hamra] }

DriverResponses ==
    [type : {"DRIVER_RESPONSE"}, ride_id : RideIds,
     status : {"ACCEPTED", "DENIED"}, driver_id : Users \cup {NULL}]
StartRides == [type : {"START_RIDE"}, ride_id : RideIds]
CompleteRides == [type : {"COMPLETE_RIDE"}, ride_id : RideIds]
CancelRides == [type : {"CANCEL_RIDE"}, ride_id : RideIds \cup {NULL}]
UpdateRatings ==
    [type : {"UPDATE_RATING"}, ride_id : RideIds, rater_user_id : Users,
     rating : RatingValues]
Broadcasts ==
    [type : {"BROADCAST_RIDE_REQUEST"}, passenger_id : Users, q : Queries]

\* The tables stay within the model's bounds.
Admissible(r) ==
    /\ r.type = "BROADCAST_RIDE_REQUEST" => Len(rides) < MaxRides
    /\ r.type = "UPDATE_RATING" =>
          \/ Len(ratings) < MaxRatings
          \/ ExistingRating(r.ride_id, r.rater_user_id) # {}

\* clients.get(username)
HasClient(u) == \E i \in DOMAIN clients : clients[i].username = u
Client(u) == clients[CHOOSE i \in DOMAIN clients : clients[i].username = u]

\* The message send_to_username is called with for a stored user; nothing
\* for a user id that get_user_by_id does not find.
Push(user_id, type, status, ride_id) ==
    IF get_user_by_id(user_id) # NULL
    THEN << [to |-> user_id, type |-> type, status |-> status,
             ride_id |-> ride_id, driver_username |-> NULL, peer |-> FALSE] >>
    ELSE <<>>

\* send_to_username for each message in turn: nothing is sent to a user
\* without an entry in clients; send_json writes to the entry's connection
\* and raises when the entry has no "conn" or the socket was closed.
RECURSIVE Deliver(_, _)
Deliver(sends, sent) ==
    IF sends = <<>> THEN [sent |-> sent, raised |-> FALSE]
    ELSE LET m == Head(sends)
         IN  IF ~HasClient(m.to) THEN Deliver(Tail(sends), sent)
             ELSE IF Client(m.to).conn # NULL /\ sock[Client(m.to).conn] = "open"
             THEN Deliver(Tail(sends), sent \cup {m})
             ELSE [sent |-> sent, raised |-> TRUE]

\* The pushes, then the response of the given type and status.
Reply(r, type, status, sends) ==
    LET d == Deliver(sends, {})
    IN  IF d.raised THEN Msg(r, "EXCEPTION", "OSError", d.sent)
        ELSE Msg(r, type, status, d.sent)

\* The elements of a set of ids, smallest first (the order of the rows).
RECURSIVE Ascending(_)
Ascending(S) ==
    IF S = {} THEN <<>>
    ELSE LET x == CHOOSE y \in S : \A z \in S : y <= z
         IN  <<x>> \o Ascending(S \ {x})

\* `for d in ids: send_to_username(d's username, ...)`: one message for each
\* stored user of the sequence, in its order.
PushEach(ids, type, status, ride_id) ==
    LET known == SelectSeq(ids, LAMBDA d : get_user_by_id(d) # NULL)
    IN  [i \in DOMAIN known |->
            [to |-> known[i], type |-> type, status |-> status,
             ride_id |-> ride_id, driver_username |-> NULL, peer |-> FALSE]]

\* The DRIVER_RESPONSE {ACCEPTED} payload: driver_username, and driver_ip and
\* driver_port when the driver's clients entry holds peer info.
AcceptedPush(passenger_id, ride_id, driver_id) ==
    IF get_user_by_id(passenger_id) = NULL THEN <<>>
    ELSE << [to |-> passenger_id, type |-> "DRIVER_RESPONSE",
             status |-> "ACCEPTED", ride_id |-> ride_id,
             driver_username |-> get_user_by_id(driver_id),
             peer |-> /\ get_user_by_id(driver_id) # NULL
                      /\ HasClient(driver_id)
                      /\ Client(driver_id).peer] >>

\* DRIVER_RESPONSE.  driver_id is the payload's, or the user id of the login
\* on the connection; NULL when it is absent and cannot be inferred.
handle_driver_response(r, ride) ==
    /\ IF r.driver_id = NULL
       THEN /\ last' = Msg(r, "DRIVER_RESPONSE_OK", "ERROR", {})
            /\ UNCHANGED <<rides, offers, accepted_by>>
       ELSE IF ride.status # "PENDING"
       THEN \* no such ride, or already taken or cancelled
            /\ last' = Msg(r, "DRIVER_RESPONSE_OK", "CLOSED", {})
            /\ UNCHANGED <<rides, offers, accepted_by>>
       ELSE IF r.status = "ACCEPTED"
       THEN /\ accept_ride_request(r.ride_id, r.driver_id)
            /\ last' = Reply(r, "DRIVER_RESPONSE_OK", "ACCEPTED",
                   AcceptedPush(ride.passenger_id, r.ride_id, r.driver_id)
                   \o PushEach(Ascending(other_driver_ids(r.ride_id, r.driver_id)),
                               "RIDE_UNAVAILABLE", "NONE", r.ride_id))
            /\ accepted_by' =
                 IF last'.type = "DRIVER_RESPONSE_OK"
                 THEN [accepted_by EXCEPT ![r.ride_id] = @ \cup {r.driver_id}]
                 ELSE accepted_by
       ELSE \* DENIED: only the passenger is told
            /\ last' = Reply(r, "DRIVER_RESPONSE_OK", "DENIED",
                   Push(ride.passenger_id, "DRIVER_RESPONSE", "DENIED", r.ride_id))
            /\ UNCHANGED <<rides, offers, accepted_by>>
    /\ UNCHANGED <<users, schedules, ratings, now>>

\* now - completed_at <= RATING_WINDOW, False without a completion timestamp.
can_edit_rating(ride) ==
    /\ ride.status # "NONE"
    /\ ride.completed_at # NoTime
    /\ now - ride.completed_at <= RATING_WINDOW

handle_update_rating(r, ride) ==
    /\ LET rater_id == r.rater_user_id
           byPassenger == rater_id = ride.passenger_id
           rated_user_id == IF byPassenger THEN ride.driver_id
                            ELSE ride.passenger_id
           role == IF byPassenger THEN "driver" ELSE "passenger"
           Fail(reason) ==
               /\ last' = Msg(r, "UPDATE_RATING_FAIL", reason, {})
               /\ UNCHANGED ratings
       IN  IF ride.status = "NONE" THEN Fail("Ride not found")
           ELSE IF rater_id \notin {ride.passenger_id, ride.driver_id}
           THEN Fail("Not part of this ride")
           ELSE IF ~can_edit_rating(ride) THEN Fail("Rating window closed")
           ELSE IF rated_user_id = NULL
           THEN \* ratings.rated_user_id is NOT NULL: sqlite3.IntegrityError
                \* leaves the handler; handle_client closes the connection
                /\ last' = Msg(r, "EXCEPTION", "IntegrityError", {})
                /\ UNCHANGED ratings
           ELSE /\ upsert_rating(rated_user_id, rater_id, r.rating, role, r.ride_id)
                /\ last' = Msg(r, "UPDATE_RATING_OK", "NONE", {})
    /\ UNCHANGED <<users, schedules, rides, offers, now, accepted_by>>

\* The pushes to the two parties of the ride as it is after the update.
PartyPushes(ride_id, type) ==
    LET ride == IF ride_id \in 1..Len(rides) THEN rides'[ride_id] ELSE NoRide
    IN  IF ride.status = "NONE" THEN <<>>
        ELSE Push(ride.passenger_id, type, "NONE", ride_id)
             \o Push(ride.driver_id, type, "NONE", ride_id)

handle_start_ride(r) ==
    /\ start_ride(r.ride_id)
    /\ last' = Reply(r, "START_RIDE_OK", "NONE",
                   PartyPushes(r.ride_id, "RIDE_STARTED"))
    /\ UNCHANGED <<users, schedules, offers, ratings, now, accepted_by>>

handle_complete_ride(r) ==
    /\ complete_ride(r.ride_id)
    /\ last' = Reply(r, "COMPLETE_RIDE_OK", "NONE",
                   PartyPushes(r.ride_id, "RIDE_COMPLETED"))
    /\ UNCHANGED <<users, schedules, offers, ratings, now, accepted_by>>

handle_cancel_ride(r, ride) ==
    /\ IF r.ride_id = NULL
       THEN /\ last' = Msg(r, "CANCEL_RIDE_FAIL", "ride_id missing", {})
            /\ UNCHANGED rides
       ELSE IF ride.status = "NONE"
       THEN /\ last' = Msg(r, "CANCEL_RIDE_FAIL", "ride not found", {})
            /\ UNCHANGED rides
       ELSE IF ride.status = "COMPLETED"
       THEN /\ last' = Msg(r, "CANCEL_RIDE_FAIL", "ride already completed", {})
            /\ UNCHANGED rides
       ELSE /\ update_ride_status(r.ride_id, "CANCELLED")
            /\ last' = Reply(r, "CANCEL_RIDE_OK", "NONE",
                   Push(ride.passenger_id, "RIDE_CANCELLED", "NONE", r.ride_id)
                   \o Push(ride.driver_id, "RIDE_CANCELLED", "NONE", r.ride_id))
    /\ UNCHANGED <<users, schedules, offers, ratings, now, accepted_by>>

\* The driver-side filter left out: every driver find_drivers returns.
eligible_drivers_NoDriverSide(passenger_id, q) ==
    find_drivers(q.direction, q.day, q.time, q.area, users[passenger_id].min_rating)

\* The drivers of find_drivers whose own min_rating the passenger's average
\* passenger rating reaches.
eligible_drivers(passenger_id, q) ==
    LET passenger_min == users[passenger_id].min_rating
        drivers == find_drivers(q.direction, q.day, q.time, q.area, passenger_min)
    IN  {d \in drivers : AvgAtLeast(passenger_id, "passenger", users[d].min_rating)}

handle_broadcast_ride_request(r) ==
    /\ LET eligible == eligible_drivers(r.passenger_id, r.q)
       IN  IF eligible = {}
           THEN /\ last' = Msg(r, "NO_DRIVERS_FOUND", "NONE", {})
                /\ UNCHANGED <<rides, offers>>
           ELSE LET ride_id == Len(rides) + 1
                    reply == Reply(r, "BROADCAST_OK", "NONE",
                                   PushEach(Ascending(eligible), "RIDE_REQUEST",
                                            "NONE", ride_id))
                IN
                /\ create_ride_request(r.passenger_id, eligible)
                /\ last' = IF reply.type = "BROADCAST_OK"
                           THEN [reply EXCEPT !.ride_id = ride_id]
                           ELSE reply
    /\ UNCHANGED <<users, schedules, ratings, now, accepted_by>>

(***************************************************************************)
(* Part II.  The client multiplexer (src/client/api_client.py).            *)
(*                                                                         *)
(* A message is [type, re, n]: re is the number of the request it answers  *)
(* (0 for a push), n its position among the messages the server wrote.     *)
(* What a call raises is recorded in the same shape, with re = n = 0.      *)
(***************************************************************************)
Callers == 1..NCallers

NoneMsg == [type |-> "None", re |-> 0, n |-> 0]

\* raise ApiClientError(text), or the OSError send_json lets through.
Raised(text) == [type |-> text, re |-> 0, n |-> 0]

Errors == {"Busy", "Timeout", "NoResponse", "NotConnected", "OSError"}

NoCall == [msg_type |-> "NONE", expected |-> {}, id |-> 0]

\* MessagesTab before the user sent anything: n messages sent; the message
\* whose relay call is in progress (0: none); per message, whether an
\* address was cached and whether peer_send returned; the messages peer_send
\* delivered, those written as SEND_MESSAGE, those appended to the chat
\* history, and the error boxes shown.
NoChat == [n |-> 0, pending |-> 0, tried |-> <<>>, direct |-> <<>>,
           relayed |-> <<>>, shown |-> <<>>, boxes |-> <<>>]

\* No drain_events call in progress.
NoDrain == [running |-> FALSE, events |-> <<>>]

\* {"type": "CONNECTION_LOST", "payload": {}}
ConnectionLost == [type |-> "CONNECTION_LOST", re |-> 0, n |-> 0]

IsMessage(m) == m.type \notin Errors \cup {"None"}

\* The synchronous calls made: start_ride and cancel_ride.
CallTypes == {"START_RIDE", "CANCEL_RIDE"}

\* expected= of the call that sends msg_type.
Expected(msg_type) ==
    CASE msg_type = "START_RIDE" -> {"START_RIDE_OK"}
      [] msg_type = "CANCEL_RIDE" -> {"CANCEL_RIDE_OK", "CANCEL_RIDE_FAIL"}
      [] msg_type = "ANNOUNCE_PEER" -> {"ANNOUNCE_OK", "ANNOUNCE_FAIL"}
      [] msg_type = "LOGIN" -> {"LOGIN_OK", "LOGIN_FAIL"}
      [] msg_type = "SET_ROLE" -> {"SET_ROLE_OK"}
      [] msg_type = "ADD_SCHEDULE" -> {"ADD_SCHEDULE_OK"}
      [] msg_type = "LIST_SCHEDULE" -> {"SCHEDULE_LIST"}
      [] msg_type = "DELETE_SCHEDULE" -> {"DELETE_SCHEDULE_OK"}
      [] msg_type = "BROADCAST_RIDE_REQUEST" -> {"BROADCAST_OK", "NO_DRIVERS_FOUND"}
      [] msg_type = "REQUEST_RIDE" -> {"DRIVER_LIST"}
      [] msg_type = "CREATE_RIDE" -> {"RIDE_CREATED"}
      [] msg_type = "FETCH_PENDING" -> {"PENDING_RIDES"}
      [] msg_type = "FETCH_RIDE_REQUESTS" -> {"RIDE_REQUEST_LIST"}
      [] msg_type = "DRIVER_RESPONSE" -> {"DRIVER_RESPONSE_OK"}
      [] msg_type = "FETCH_RIDES" -> {"RIDES_LIST"}
      [] msg_type = "UPDATE_RATING" -> {"UPDATE_RATING_OK", "UPDATE_RATING_FAIL"}
      [] msg_type = "COMPLETE_RIDE" -> {"COMPLETE_RIDE_OK"}
      [] msg_type = "LIST_CONTACTS" -> {"CONTACTS"}
      [] msg_type = "FETCH_MESSAGES" -> {"MESSAGES"}
      [] msg_type = "SEND_MESSAGE" -> {"SEND_MESSAGE_OK", "SEND_MESSAGE_FAIL"}
      [] OTHER -> {}

\* The response types the server's handler for msg_type sends.
Responses(msg_type) ==
    IF msg_type = "START_RIDE" THEN {"START_RIDE_OK"}
    ELSE IF msg_type = "SEND_MESSAGE"
    THEN {"SEND_MESSAGE_OK", "SEND_MESSAGE_FAIL"}
    ELSE {"CANCEL_RIDE_OK", "CANCEL_RIDE_FAIL"}

\* The pushes send_to_username writes to this client's connection.
PushTypes == {"RIDE_STARTED"}

\* _ensure_connection with the test left out.
ensure_connection_Always == TRUE

\* _ensure_connection: raise if not self._sock or not self._connected.
ensure_connection == has_sock /\ connected

\* _send_and_wait up to `with self._send_lock`: _ensure_connection and
\* expected_types = set(expected).
Call(c) ==
    \E msg_type \in CallTypes :
      /\ cpc[c] = "idle"
      /\ n_calls < MaxCalls
      /\ n_calls' = n_calls + 1
      /\ call' = [call EXCEPT ![c] = [msg_type |-> msg_type,
                                       expected |-> Expected(msg_type),
                                       id |-> n_calls + 1]]
      /\ IF ensure_connection
         THEN /\ cpc' = [cpc EXCEPT ![c] = "lock"]
              /\ outcome' = [outcome EXCEPT ![c] = NoneMsg]
         ELSE /\ cpc' = cpc
              /\ outcome' = [outcome EXCEPT ![c] = Raised("NotConnected")]
      /\ UNCHANGED <<connected, reader, link, send_lock, wait_types,
                     wait_response, wait_event, async_events, outbox, inbox,
                     n_msgs>>
      /\ UNCHANGED nonCliVars

\* The in-flight check left out: a call registers its expectation whatever
\* self._wait_types holds.
in_flight_NoCheck == FALSE

\* if self._wait_types: another request is already in flight.
in_flight == wait_types # {}

\* `with self._send_lock: with self._wait_lock:` either raises the busy error
\* (leaving both locks) or registers the expectation and keeps _send_lock.
Begin(c) ==
    /\ cpc[c] = "lock"
    /\ send_lock = NULL
    /\ IF in_flight
       THEN /\ outcome' = [outcome EXCEPT ![c] = Raised("Busy")]
            /\ cpc' = [cpc EXCEPT ![c] = "idle"]
            /\ UNCHANGED <<send_lock, wait_types, wait_response, wait_event>>
       ELSE /\ wait_types' = call[c].expected
            /\ wait_response' = NoneMsg
            /\ wait_event' = FALSE
            /\ send_lock' = c
            /\ cpc' = [cpc EXCEPT ![c] = "send"]
            /\ UNCHANGED outcome
    /\ UNCHANGED <<connected, reader, link, async_events, call,
                   outbox, inbox, n_calls, n_msgs>>
    /\ UNCHANGED nonCliVars

\* send_json(sock, ...) returns; _send_lock is left.  On a connection the peer
\* has closed the bytes may still be accepted, and are never read.
send(c) ==
    /\ cpc[c] = "send"
    /\ outbox' = IF link = "up"
                 THEN Append(outbox, [type |-> call[c].msg_type, id |-> call[c].id])
                 ELSE outbox
    /\ send_lock' = NULL
    /\ cpc' = [cpc EXCEPT ![c] = "wait"]
    /\ UNCHANGED <<connected, reader, link, wait_types, wait_response,
                   wait_event, async_events, call, outcome, inbox,
                   n_calls, n_msgs>>

Send(c) == send(c) /\ UNCHANGED nonCliVars

\* send_json raises (sendall on a connection the peer has closed): the
\* exception leaves _send_and_wait through `with self._send_lock`.
SendFails(c) ==
    /\ cpc[c] = "send"
    /\ link = "down"
    /\ send_lock' = NULL
    /\ outcome' = [outcome EXCEPT ![c] = Raised("OSError")]
    /\ cpc' = [cpc EXCEPT ![c] = "idle"]
    /\ UNCHANGED <<connected, reader, link, wait_types, wait_response,
                   wait_event, async_events, call, outbox, inbox,
                   n_calls, n_msgs>>
    /\ UNCHANGED nonCliVars

\* self._wait_event.wait(timeout) is entered: it returns True at once when
\* the flag is set, and blocks otherwise.
Wait(c) ==
    /\ cpc[c] = "wait"
    /\ cpc' = [cpc EXCEPT ![c] = IF wait_event THEN "woken" ELSE "blocked"]
    /\ UNCHANGED <<connected, reader, link, send_lock, wait_types,
                   wait_response, wait_event, async_events, call,
                   outcome, outbox, inbox, n_calls, n_msgs>>
    /\ UNCHANGED nonCliVars

\* wait(timeout) returns False: the timeout passed with no set().
TimeOut(c) ==
    /\ cpc[c] = "blocked"
    /\ cpc' = [cpc EXCEPT ![c] = "timedout"]
    /\ UNCHANGED <<connected, reader, link, send_lock, wait_types,
                   wait_response, wait_event, async_events, call,
                   outcome, outbox, inbox, n_calls, n_msgs>>
    /\ UNCHANGED nonCliVars

\* The timeout branch with the reset of self._wait_types left out.
expire_KeepsExpectation(c) ==
    /\ UNCHANGED wait_types
    /\ outcome' = [outcome EXCEPT ![c] = Raised("Timeout")]

\* with self._wait_lock: self._wait_types = set(); raise ApiClientError.
expire(c) ==
    /\ wait_types' = {}
    /\ outcome' = [outcome EXCEPT ![c] = Raised("Timeout")]

Expire(c) ==
    /\ cpc[c] = "timedout"
    /\ expire(c)
    /\ cpc' = [cpc EXCEPT ![c] = "idle"]
    /\ UNCHANGED <<connected, reader, link, send_lock, wait_response,
                   wait_event, async_events, call, outbox, inbox,
                   n_calls, n_msgs>>
    /\ UNCHANGED nonCliVars

\* wait() returned True: response = self._wait_response, which is reset to
\* None; a None response raises, any other is returned.
Return(c) ==
    /\ cpc[c] = "woken"
    /\ outcome' = [outcome EXCEPT ![c] = IF wait_response = NoneMsg
                                         THEN Raised("NoResponse")
                                         ELSE wait_response]
    /\ wait_response' = NoneMsg
    /\ cpc' = [cpc EXCEPT ![c] = "idle"]
    /\ UNCHANGED <<connected, reader, link, send_lock, wait_types, wait_event,
                   async_events, call, outbox, inbox, n_calls,
                   n_msgs>>
    /\ UNCHANGED nonCliVars

\* The message the reader's recv_json returns next.
data == Head(inbox)

\* Lines recv_json cannot turn into a message: text that is not JSON
\* (json.JSONDecodeError, caught: None is returned) and bytes that are not
\* UTF-8 (UnicodeDecodeError from decode(), which nothing catches).
UnparsableFrames == {"InvalidJSON", "InvalidUTF8"}

\* if self._wait_types and data.get("type") in self._wait_types
Matches(m) == wait_types # {} /\ m.type \in wait_types

\* One turn of _recv_loop on a message: it is stored as the response of the
\* call in flight, whose wait() is woken (set() wakes every thread blocked in
\* wait), or it is put on the event queue.
RecvLoop ==
    /\ reader = "running"
    /\ connected
    /\ inbox # <<>>
    /\ data.type \notin UnparsableFrames
    /\ inbox' = Tail(inbox)
    /\ IF Matches(data)
       THEN /\ wait_response' = data
            /\ wait_types' = {}
            /\ wait_event' = TRUE
            /\ cpc' = [c \in Callers |->
                         IF cpc[c] = "blocked" THEN "woken" ELSE cpc[c]]
            /\ UNCHANGED async_events
       ELSE /\ async_events' = Append(async_events, data)
            /\ UNCHANGED <<wait_response, wait_types, wait_event, cpc>>
    /\ UNCHANGED <<connected, reader, link, send_lock, call, outcome, outbox,
                   n_calls, n_msgs>>
    /\ UNCHANGED nonCliVars

\* recv_json returns None or raises: the connection has ended.  What the
\* server wrote and the reader had not read is lost with a reset.
RecvLoopEnd ==
    /\ reader = "running"
    /\ \/ link = "down"
       \/ inbox # <<>> /\ data.type = "InvalidJSON"
    /\ connected' = FALSE
    /\ async_events' = Append(async_events, ConnectionLost)
    /\ reader' = "stopped"
    /\ inbox' = <<>>
    /\ UNCHANGED <<link, send_lock, wait_types, wait_response, wait_event, cpc,
                   call, outcome, outbox, n_calls, n_msgs>>
    /\ UNCHANGED nonCliVars

\* recv_json raises UnicodeDecodeError: neither its own except clauses nor
\* _recv_loop's `except (ConnectionResetError, OSError)` catch it, so the
\* reader thread ends where it is.
RecvLoopRaises ==
    /\ reader = "running"
    /\ connected
    /\ inbox # <<>>
    /\ data.type = "InvalidUTF8"
    /\ reader' = "stopped"
    /\ inbox' = Tail(inbox)
    /\ UNCHANGED <<connected, link, send_lock, wait_types, wait_response,
                   wait_event, async_events, cpc, call, outcome, outbox,
                   n_calls, n_msgs>>
    /\ UNCHANGED nonCliVars

\* handle_client reads a request and its handler answers it.
ServerRespond ==
    /\ link = "up"
    /\ outbox # <<>>
    /\ n_msgs < MaxMsgs
    /\ \E type \in Responses(Head(outbox).type) :
         inbox' = Append(inbox, [type |-> type, re |-> Head(outbox).id,
                                n |-> n_msgs + 1])
    /\ outbox' = Tail(outbox)
    /\ n_msgs' = n_msgs + 1
    /\ UNCHANGED <<connected, reader, link, send_lock, wait_types,
                   wait_response, wait_event, async_events, cpc, call,
                   outcome, n_calls>>
    /\ UNCHANGED nonCliVars

\* send_to_username: a handler serving another connection pushes a message.
ServerPush ==
    \E type \in PushTypes :
      /\ link = "up"
      /\ n_msgs < MaxMsgs
      /\ inbox' = Append(inbox, [type |-> type, re |-> 0, n |-> n_msgs + 1])
      /\ n_msgs' = n_msgs + 1
      /\ UNCHANGED <<connected, reader, link, send_lock, wait_types,
                     wait_response, wait_event, async_events, cpc, call,
                     outcome, outbox, n_calls>>
      /\ UNCHANGED nonCliVars

\* The server closes the connection (handle_client's finally), or it is reset.
ServerClose ==
    /\ link = "up"
    /\ link' = "down"
    /\ UNCHANGED <<connected, reader, send_lock, wait_types, wait_response,
                   wait_event, async_events, cpc, call, outcome, outbox, inbox,
                   n_calls, n_msgs>>
    /\ UNCHANGED nonCliVars

\* connect(): nothing when connected; else a new socket, self._connected =
\* True and a new reader thread.  The reader of the connection before, if
\* it has not ended yet, goes on running.
Connect ==
    /\ ~connected
    /\ n_conns < MaxConns
    /\ n_conns' = n_conns + 1
    /\ has_sock' = TRUE
    /\ connected' = TRUE
    /\ link' = "up"
    /\ outbox' = <<>>
    /\ inbox' = <<>>
    /\ reader' = "running"
    /\ old_reader' = IF reader = "running" THEN "running" ELSE old_reader
    /\ UNCHANGED <<send_lock, wait_types, wait_response, wait_event,
                   async_events, cpc, call, outcome, n_calls, n_msgs>>
    /\ UNCHANGED <<srvVars, mtcVars, msgVars, presVars, wireVars, drainVars, uiVars, session>>

\* disconnect(): self._connected = False; the socket is shut down and closed
\* and self._sock = None.
Disconnect ==
    /\ has_sock \/ connected
    /\ connected' = FALSE
    /\ has_sock' = FALSE
    /\ link' = "down"
    /\ UNCHANGED <<reader, send_lock, wait_types, wait_response, wait_event,
                   async_events, cpc, call, outcome, outbox, inbox, n_calls,
                   n_msgs>>
    /\ UNCHANGED <<srvVars, mtcVars, msgVars, presVars, wireVars, drainVars, uiVars, session, old_reader,
                   n_conns>>

\* `while self._connected` is False when a reader thread gets to it: the
\* thread ends without a word.
ReaderExits ==
    /\ ~connected
    /\ \/ reader = "running" /\ reader' = "stopped" /\ UNCHANGED old_reader
       \/ old_reader = "running" /\ old_reader' = "stopped" /\ UNCHANGED reader
    /\ UNCHANGED <<connected, link, send_lock, wait_types, wait_response,
                   wait_event, async_events, cpc, call, outcome, outbox, inbox,
                   n_calls, n_msgs>>
    /\ UNCHANGED <<srvVars, mtcVars, msgVars, presVars, wireVars, drainVars, uiVars, session, has_sock,
                   n_conns>>

\* The reader of the connection before this one finds its socket closed:
\* recv_json raises OSError, data = None, and it does what _recv_loop does on
\* the end of a connection.
OldReaderEnds ==
    /\ old_reader = "running"
    /\ old_reader' = "stopped"
    /\ connected' = FALSE
    /\ async_events' = Append(async_events, ConnectionLost)
    /\ UNCHANGED <<reader, link, send_lock, wait_types, wait_response,
                   wait_event, cpc, call, outcome, outbox, inbox, n_calls,
                   n_msgs>>
    /\ UNCHANGED <<srvVars, mtcVars, msgVars, presVars, wireVars, drainVars, uiVars, session, has_sock,
                   n_conns>>

\* A reader that was blocked in recv_json on an open socket while
\* self._connected was set to False by the reader of the connection before:
\* it delivers the message it receives as any iteration does, and the
\* `while self._connected` that follows ends the thread.
RecvLoopLast ==
    /\ reader = "running"
    /\ ~connected
    /\ link = "up"
    /\ inbox # <<>>
    /\ data.type \notin UnparsableFrames
    /\ inbox' = Tail(inbox)
    /\ IF Matches(data)
       THEN /\ wait_response' = data
            /\ wait_types' = {}
            /\ wait_event' = TRUE
            /\ cpc' = [c \in Callers |->
                         IF cpc[c] = "blocked" THEN "woken" ELSE cpc[c]]
            /\ UNCHANGED async_events
       ELSE /\ async_events' = Append(async_events, data)
            /\ UNCHANGED <<wait_response, wait_types, wait_event, cpc>>
    /\ reader' = "stopped"
    /\ UNCHANGED <<connected, link, send_lock, call, outcome, outbox,
                   n_calls, n_msgs>>
    /\ UNCHANGED nonCliVars

\* The peer writes a line that is not a message of the protocol.
PeerSendsUnparsable ==
    \E type \in UnparsableFrames :
      /\ link = "up"
      /\ n_msgs < MaxMsgs
      /\ inbox' = Append(inbox, [type |-> type, re |-> 0, n |-> n_msgs + 1])
      /\ n_msgs' = n_msgs + 1
      /\ UNCHANGED <<connected, reader, link, send_lock, wait_types,
                     wait_response, wait_event, async_events, cpc, call,
                     outcome, outbox, n_calls>>
      /\ UNCHANGED nonCliVars

(***************************************************************************)
(* Spec: every handler runs its `with db_lock` block as one step.          *)
(***************************************************************************)
thrVars == <<db_lock, pc, req, snap>>

\* What a server step leaves alone when it runs a whole handler at once.
restVars == <<thrVars, sideVars>>

DriverResponse ==
    \E r \in DriverResponses :
      /\ handle_driver_response(r, get_ride_by_id(r.ride_id))
      /\ UNCHANGED restVars

UpdateRating ==
    \E r \in UpdateRatings :
      /\ Admissible(r)
      /\ handle_update_rating(r, get_ride_by_id(r.ride_id))
      /\ UNCHANGED restVars

StartRide ==
    \E r \in StartRides : handle_start_ride(r) /\ UNCHANGED restVars

CompleteRide ==
    \E r \in CompleteRides : handle_complete_ride(r) /\ UNCHANGED restVars

CancelRide ==
    \E r \in CancelRides :
      /\ handle_cancel_ride(r, get_ride_by_id(r.ride_id))
      /\ UNCHANGED restVars

BroadcastRideRequest ==
    \E r \in Broadcasts :
      /\ Admissible(r)
      /\ handle_broadcast_ride_request(r)
      /\ UNCHANGED restVars

\* Time passes.
Tick ==
    \E d \in TickSteps :
      /\ now + d <= MaxNow
      /\ now' = now + d
      /\ last' = NoMsg
      /\ UNCHANGED <<users, schedules, rides, offers, ratings, accepted_by>>
      /\ UNCHANGED restVars

\* The schedules the drivers have declared.
InitSchedules ==
    { [user_id |-> 2, day |-> "Monday", time |-> 480, direction |-> ToAUB,
       area |-> Hamra],
      [user_id |-> 3, day |-> "Monday", time |-> 485, direction |-> ToAub,
       area |-> HamraLow],
      [user_id |-> 2, day |-> "Tuesday", time |-> 5, direction |-> ToAUB,
       area |-> Hamra],
      [user_id |-> 1, day |-> "Monday", time |-> 490, direction |-> ToAUB,
       area |-> Hamra] }

\* After init_db and registration: user 1 a passenger who may also have chosen
\* to drive, users 2 and 3 drivers; user 2 asks for partners rated 3 or more.
InitUsers ==
    {u \in [Users -> [is_driver : BOOLEAN, min_rating : {0, 3}]] :
        /\ u[2].is_driver /\ u[3].is_driver
        /\ u[1].min_rating = 0 /\ u[2].min_rating = 3 /\ u[3].min_rating = 0}

\* self.username = None, self.user_id = None
NoSession == [username |-> NULL, user_id |-> NULL]

\* The handler threads idle, nothing sent yet; the ApiClient after connect().
InitIdle ==
    /\ now = 0
    /\ db_lock = NULL
    /\ pc = [t \in Threads |-> "idle"]
    /\ req = [t \in Threads |-> NoReq]
    /\ snap = [t \in Threads |-> NoRide]
    /\ last = NoMsg
    /\ accepted_by = [r \in RideIds |-> {}]
    /\ send_lock = NULL
    /\ wait_types = {}
    /\ wait_response = NoneMsg
    /\ wait_event = FALSE
    /\ async_events = <<>>
    /\ cpc = [c \in Callers |-> "idle"]
    /\ call = [c \in Callers |-> NoCall]
    /\ outcome = [c \in Callers |-> NoneMsg]
    /\ outbox = <<>>
    /\ inbox = <<>>
    /\ n_calls = 0
    /\ n_msgs = 0
    /\ found = NoResult
    /\ contacts = [u \in Users |-> NoResult]
    /\ fetched = NoFetch
    /\ sock = [t \in Conns |-> "open"]
    /\ wire = <<>>
    /\ buf = <<>>
    /\ written = <<>>
    /\ returned = <<>>
    /\ sending = [w \in Writers |-> <<>>]
    /\ room = [t \in Conns |-> BufFrames]
    /\ stuck = [t \in Conns |-> [on |-> NULL, rest |-> {}, req |-> NoReq]]
    /\ chat = NoChat
    /\ drain = NoDrain
    /\ drained = <<>>

\* ... after its first connect().
InitCore ==
    /\ InitIdle
    /\ connected = TRUE
    /\ reader = "running"
    /\ link = "up"
    /\ has_sock = TRUE
    /\ old_reader = "none"
    /\ n_conns = 1

\* ... of an ApiClient that has not logged in.
InitRest == InitCore /\ session = NoSession

\* Connections accepted, no LOGIN handled yet.
NobodyLoggedIn ==
    /\ username = [t \in Conns |-> NULL]
    /\ clients = <<>>

Init ==
    /\ NobodyLoggedIn
    /\ users \in InitUsers
    /\ schedules = InitSchedules
    /\ rides = <<>>
    /\ offers = {}
    /\ ratings = <<>>
    /\ query = NoQuery
    /\ messages = <<>>
    /\ InitRest

Next ==
    \/ DriverResponse
    \/ UpdateRating
    \/ StartRide
    \/ CompleteRide
    \/ CancelRide
    \/ BroadcastRideRequest
    \/ Tick

Spec == Init /\ [][Next]_vars

(***************************************************************************)
(* SpecLock: the handler threads and db_lock made explicit, for the        *)
(* handlers that write rides and ride_offers.  A thread reads a request    *)
(* from its connection (Recv), enters `with db_lock` and reads the ride    *)
(* (Acquire), then runs the rest of the block and leaves the lock (Run..). *)
(***************************************************************************)
LockedRequests ==
    {r \in DriverResponses : r.driver_id # NULL}
    \cup {r \in CancelRides : r.ride_id # NULL}
    \cup StartRides \cup CompleteRides \cup Broadcasts

ReadsRide(r) == r.type \in {"DRIVER_RESPONSE", "CANCEL_RIDE"}

\* recv_json returned a request; the handler is about to take db_lock.
Recv(t) ==
    \E r \in LockedRequests :
      /\ pc[t] = "idle"
      /\ pc' = [pc EXCEPT ![t] = "waiting"]
      /\ req' = [req EXCEPT ![t] = r]
      /\ last' = NoMsg
      /\ UNCHANGED <<users, schedules, rides, offers, ratings, now, db_lock,
                     snap, accepted_by>>
      /\ UNCHANGED sideVars

\* db_lock left out: a thread enters its block whoever holds the lock.
CanAcquire_NoLock(t) == TRUE

\* threading.Lock: db_lock can be taken when no thread holds it.
CanAcquire(t) == db_lock = NULL

Acquire(t) ==
    /\ pc[t] = "waiting"
    /\ Admissible(req[t])
    /\ CanAcquire(t)
    /\ db_lock' = t
    /\ pc' = [pc EXCEPT ![t] = "locked"]
    /\ snap' = [snap EXCEPT ![t] = IF ReadsRide(req[t])
                                   THEN get_ride_by_id(req[t].ride_id)
                                   ELSE NoRide]
    /\ last' = NoMsg
    /\ UNCHANGED <<users, schedules, rides, offers, ratings, now, req,
                   accepted_by>>
    /\ UNCHANGED sideVars

\* The handler returns and `with db_lock` releases the lock.
Release(t) ==
    /\ pc' = [pc EXCEPT ![t] = "idle"]
    /\ req' = [req EXCEPT ![t] = NoReq]
    /\ snap' = [snap EXCEPT ![t] = NoRide]
    /\ db_lock' = NULL
    /\ UNCHANGED sideVars

Locked(t, type) == pc[t] = "locked" /\ req[t].type = type

RunDriverResponse(t) ==
    /\ Locked(t, "DRIVER_RESPONSE")
    /\ handle_driver_response(req[t], snap[t])
    /\ Release(t)

RunStartRide(t) ==
    /\ Locked(t, "START_RIDE")
    /\ handle_start_ride(req[t])
    /\ Release(t)

RunCompleteRide(t) ==
    /\ Locked(t, "COMPLETE_RIDE")
    /\ handle_complete_ride(req[t])
    /\ Release(t)

RunCancelRide(t) ==
    /\ Locked(t, "CANCEL_RIDE")
    /\ handle_cancel_ride(req[t], snap[t])
    /\ Release(t)

RunBroadcastRideRequest(t) ==
    /\ Locked(t, "BROADCAST_RIDE_REQUEST")
    /\ handle_broadcast_ride_request(req[t])
    /\ Release(t)

NextLock ==
    \/ \E t \in Threads : Recv(t)
    \/ \E t \in Threads : Acquire(t)
    \/ \E t \in Threads : RunDriverResponse(t)
    \/ \E t \in Threads : RunStartRide(t)
    \/ \E t \in Threads : RunCompleteRide(t)
    \/ \E t \in Threads : RunCancelRide(t)
    \/ \E t \in Threads : RunBroadcastRideRequest(t)

SpecLock == Init /\ [][NextLock]_vars

(***************************************************************************)
(* SpecClient: the threads calling into one ApiClient, its reader thread   *)
(* and the server end of its connection.                                   *)
(***************************************************************************)
NextClient ==
    \/ \E c \in Callers : Call(c)
    \/ \E c \in Callers : Begin(c)
    \/ \E c \in Callers : Send(c)
    \/ \E c \in Callers : SendFails(c)
    \/ \E c \in Callers : Wait(c)
    \/ \E c \in Callers : TimeOut(c)
    \/ \E c \in Callers : Expire(c)
    \/ \E c \in Callers : Return(c)
    \/ RecvLoop
    \/ RecvLoopEnd
    \/ ServerRespond
    \/ ServerPush
    \/ ServerClose

SpecClient == Init /\ [][NextClient]_vars

(***************************************************************************)
(* SpecConn: the life of one ApiClient object from its construction:       *)
(* connect() (which login() calls first), the calls of one thread,          *)
(* disconnect(), the loss of the connection, and connect() again.           *)
(***************************************************************************)
\* ApiClient.__init__: no socket, no reader thread, not connected.
InitConn ==
    /\ NobodyLoggedIn
    /\ users \in InitUsers
    /\ schedules = InitSchedules
    /\ rides = <<>>
    /\ offers = {}
    /\ ratings = <<>>
    /\ query = NoQuery
    /\ messages = <<>>
    /\ InitIdle
    /\ session = NoSession
    /\ connected = FALSE
    /\ reader = "none"
    /\ link = "down"
    /\ has_sock = FALSE
    /\ old_reader = "none"
    /\ n_conns = 0

NextConn ==
    \/ Connect
    \/ Disconnect
    \/ Call(1)
    \/ Begin(1)
    \/ Send(1)
    \/ SendFails(1)
    \/ Wait(1)
    \/ TimeOut(1)
    \/ Expire(1)
    \/ Return(1)
    \/ RecvLoop
    \/ RecvLoopEnd
    \/ ReaderExits
    \/ OldReaderEnds
    \/ RecvLoopLast
    \/ ServerRespond
    \/ ServerPush
    \/ ServerClose

SpecConn == InitConn /\ [][NextConn]_vars

(***************************************************************************)
(* SpecReader: the _recv_loop thread of an ApiClient, logged in or not,     *)
(* and what the peer may put on the connection: pushes, lines that are not  *)
(* messages, and the end of the connection.                                 *)
(***************************************************************************)
\* self.username and self.user_id after login() returned LOGIN_OK.
Sessions == {NoSession} \cup {[username |-> u, user_id |-> u] : u \in Users}

InitReader ==
    /\ NobodyLoggedIn
    /\ users \in InitUsers
    /\ schedules = InitSchedules
    /\ rides = <<>>
    /\ offers = {}
    /\ ratings = <<>>
    /\ query = NoQuery
    /\ messages = <<>>
    /\ InitCore
    /\ session \in Sessions

NextReader ==
    \/ RecvLoop
    \/ RecvLoopEnd
    \/ RecvLoopRaises
    \/ ServerPush
    \/ PeerSendsUnparsable
    \/ ServerClose

SpecReader == InitReader /\ [][NextReader]_vars

(***************************************************************************)
(* SpecMatch: the matching engine on drawn inputs.  The tables are drawn   *)
(* at the start: either many shapes of driver 2's schedule entry with no   *)
(* rating yet, or the usual schedules after two completed rides of         *)
(* passenger 1 with driver 2 and the ratings the two gave each other.      *)
(* find_drivers is then called on every (day, time) of interest, and       *)
(* passengers broadcast.  Times are minutes after midnight: the "%H:%M"    *)
(* strings SQLite compares are ordered as the minutes they stand for.      *)
(***************************************************************************)
Days == {"Monday", "Tuesday", "Wednesday", "Thursday", "Friday", "Saturday",
         "Sunday"}

\* s.time of the drawn schedule entry, and time_str of the calls.
ScheduleTimes == {0, 5, 10, 480, 494, 495, 1435}
RequestTimes == {480, 1430, 1435}

\* The entries of users 3 and 1 next to the drawn entry of driver 2.
FixedSchedules ==
    { [user_id |-> 3, day |-> "Monday", time |-> 495, direction |-> ToAub,
       area |-> HamraLow],
      [user_id |-> 1, day |-> "Monday", time |-> 490, direction |-> ToAUB,
       area |-> Hamra] }

DrawnSchedules ==
    { FixedSchedules \cup {[user_id |-> 2, day |-> d, time |-> t,
                            direction |-> da[1], area |-> da[2]]} :
        d \in Days, t \in ScheduleTimes,
        da \in {<<ToAUB, Hamra>>, <<FromAUB, Hamra>>, <<ToAUB, Bliss>>} }

\* Two rides of passenger 1 with driver 2, completed at hour 0.
PastRides ==
    [i \in 1..2 |-> [passenger_id |-> 1, driver_id |-> 2,
                     status |-> "COMPLETED", completed_at |-> 0]]

\* The rows upsert_rating wrote for a ride: none, or the score given.
RatingRow(rated, rater, role, ride_id, score) ==
    IF score = 0 THEN <<>>
    ELSE << [rated_user_id |-> rated, rater_user_id |-> rater,
             rating |-> score, role |-> role, ride_id |-> ride_id] >>

PastRatings ==
    { RatingRow(2, 1, "driver", 1, a) \o RatingRow(2, 1, "driver", 2, b)
        \o RatingRow(1, 2, "passenger", 1, c) :
        a \in {0} \cup RatingValues, b \in {0} \cup RatingValues,
        c \in {0} \cup RatingValues }

\* Users 2 and 3 drivers, every user with a min_rating of their own choice.
AnyUsers ==
    {u \in [Users -> [is_driver : BOOLEAN, min_rating : {0, 3}]] :
        ~u[1].is_driver /\ u[2].is_driver /\ u[3].is_driver}

\* The arguments find_drivers is called with.
MatchQueries ==
    [direction : {ToAUB}, day : Days, time : RequestTimes, area : {Hamra},
     min_rating : {0, 3}]

\* The n-th connection has logged in as user n + 1: the drivers first.
DriversLoggedIn ==
    /\ username = [t \in Conns |-> IF t \in {1, 2} THEN t + 1 ELSE NULL]
    /\ clients = [t \in {1, 2} |->
                    [username |-> t + 1, conn |-> t, peer |-> FALSE]]

InitMatch ==
    /\ DriversLoggedIn
    /\ \/ /\ users \in InitUsers
          /\ schedules \in DrawnSchedules
          /\ rides = <<>>
          /\ ratings = <<>>
          /\ query \in {q \in MatchQueries : q.min_rating = 0}
       \/ /\ users \in AnyUsers
          /\ schedules = InitSchedules
          /\ rides = PastRides
          /\ ratings \in PastRatings
          /\ query \in {q \in MatchQueries :
                           q.day = "Monday" /\ ~(q.time + WINDOW_MINUTES >= DAY_MINUTES)}
    /\ offers = {}
    /\ messages = <<>>
    /\ InitRest

\* drivers = find_drivers(direction, day, time_str, passenger_area, min_rating)
FindDrivers ==
    /\ query # NoQuery
    /\ found' = [done |-> TRUE,
                 ids |-> find_drivers(query.direction, query.day, query.time,
                                      query.area, query.min_rating)]
    /\ last' = NoMsg
    /\ UNCHANGED <<users, schedules, rides, offers, ratings, now, accepted_by,
                   thrVars, cliVars, query, msgVars, presVars, sesVars, wireVars, drainVars, uiVars>>

\* One more BROADCAST_RIDE_REQUEST after the rides already completed.
BroadcastAgain ==
    \E r \in Broadcasts :
      /\ Len(rides) = Len(PastRides)
      /\ handle_broadcast_ride_request(r)
      /\ UNCHANGED restVars

NextMatch ==
    \/ FindDrivers
    \/ BroadcastAgain

SpecMatch == InitMatch /\ [][NextMatch]_vars

(***************************************************************************)
(* SpecNorm: find_drivers on drawn spellings.  Driver 2 has one schedule   *)
(* entry on Monday 08:00; its direction and area, and the direction and    *)
(* area of the call, are drawn from the spellings of a few texts: upper    *)
(* and lower case, '_' and ' ' between the words.                          *)
(***************************************************************************)
DirectionTexts == {ToAUB, ToAub, TO_AUB, FromAUB}
AreaTexts == {Hamra, HamraLow, RasBeirut, RasBeirutSp, RasBeirutLow, Bliss}

NormQueries ==
    [direction : DirectionTexts, day : {"Monday"}, time : {480},
     area : AreaTexts, min_rating : {0}]

NormSchedules ==
    { {[user_id |-> 2, day |-> "Monday", time |-> 480,
        direction |-> d, area |-> a]} :
        d \in DirectionTexts, a \in AreaTexts }

InitNorm ==
    /\ DriversLoggedIn
    /\ users \in InitUsers
    /\ schedules \in NormSchedules
    /\ rides = <<>>
    /\ ratings = <<>>
    /\ query \in NormQueries
    /\ offers = {}
    /\ messages = <<>>
    /\ InitRest

SpecNorm == InitNorm /\ [][FindDrivers]_vars

(***************************************************************************)
(* SpecContacts: list_contacts on drawn rides and messages tables.         *)
(***************************************************************************)
\* A ride waiting for a driver, cancelled before one accepted, or accepted.
DrawnRideRows ==
    [passenger_id : Users, driver_id : {NULL},
     status : {"PENDING", "CANCELLED"}, completed_at : {NoTime}]
    \cup [passenger_id : Users, driver_id : Users, status : {"ACCEPTED"},
          completed_at : {NoTime}]

DrawnMessageRows == [sender_id : Users, receiver_id : Users]

\* The sequences of at most MaxDrawn rows.
SeqUpTo(S) == UNION {[1..n -> S] : n \in 0..MaxDrawn}

InitContacts ==
    /\ NobodyLoggedIn
    /\ users \in InitUsers
    /\ schedules = InitSchedules
    /\ rides \in SeqUpTo(DrawnRideRows)
    /\ offers = {}
    /\ ratings = <<>>
    /\ query = NoQuery
    /\ messages \in SeqUpTo(DrawnMessageRows)
    /\ InitRest

\* contacts = list_contacts(user_id)
ListContacts ==
    \E user_id \in Users :
      /\ contacts' = [contacts EXCEPT
                         ![user_id] = [done |-> TRUE,
                                       ids |-> list_contacts(user_id)]]
      /\ UNCHANGED <<srvVars, cliVars, mtcVars, messages, fetched, presVars, sesVars, wireVars, drainVars, uiVars>>

NextContacts == ListContacts

SpecContacts == InitContacts /\ [][NextContacts]_vars

(***************************************************************************)
(* SpecPush: the accepted connections log in, announce their peer address  *)
(* and close while broadcast, driver-response and cancel requests are      *)
(* handled, each handler as one step on the connection it was read from.   *)
(* Connection 1 is the passenger's client, the others are drivers'.        *)
(***************************************************************************)
\* clients[username] = entry: an existing key keeps its place in the dict.
PutClient(entry) ==
    IF HasClient(entry.username)
    THEN [i \in DOMAIN clients |->
            IF clients[i].username = entry.username THEN entry ELSE clients[i]]
    ELSE Append(clients, entry)

\* del clients[username]
DelClient(u) == SelectSeq(clients, LAMBDA entry : entry.username # u)

\* handle_client's finally: the entry of the connection's username, if there
\* is one, is deleted whichever connection it holds; the socket is closed.
Finally(t) ==
    /\ clients' = DelClient(username[t])
    /\ sock' = [sock EXCEPT ![t] = "closed"]
    /\ username' = [username EXCEPT ![t] = NULL]

\* The usernames the client on connection t logs in with.
LoginsOn(t) ==
    IF t = 1 THEN {1} ELSE IF t = 2 THEN {2} ELSE IF t = 3 THEN {2, 3} ELSE Users

\* LOGIN: with the right password the connection's username is set and its
\* clients entry written anew; with a wrong one username becomes None.
Login(t) ==
    \E u \in LoginsOn(t), ok \in BOOLEAN :
      /\ sock[t] = "open"
      /\ username' = [username EXCEPT ![t] = IF ok THEN u ELSE NULL]
      /\ clients' = IF ok THEN PutClient([username |-> u, conn |-> t,
                                          peer |-> FALSE])
                    ELSE clients
      /\ last' = Msg([type |-> "LOGIN"],
                     IF ok THEN "LOGIN_OK" ELSE "LOGIN_FAIL", "NONE", {})
      /\ UNCHANGED sock
      /\ UNCHANGED <<users, schedules, rides, offers, ratings, now, accepted_by>>
      /\ UNCHANGED <<thrVars, cliVars, mtcVars, msgVars, sesVars, wireVars, drainVars, uiVars>>

\* ANNOUNCE_PEER with a port: info = clients.get(username, {}) gets the peer
\* address; an entry made here has no "conn".
AnnouncePeer(t) ==
    /\ sock[t] = "open"
    /\ IF username[t] = NULL
       THEN /\ last' = Msg([type |-> "ANNOUNCE_PEER"], "ANNOUNCE_FAIL",
                           "Not authenticated", {})
            /\ UNCHANGED clients
       ELSE /\ clients' =
                 PutClient(IF HasClient(username[t])
                           THEN [Client(username[t]) EXCEPT !.peer = TRUE]
                           ELSE [username |-> username[t], conn |-> NULL,
                                 peer |-> TRUE])
            /\ last' = Msg([type |-> "ANNOUNCE_PEER"], "ANNOUNCE_OK", "NONE", {})
    /\ UNCHANGED <<sock, username>>
    /\ UNCHANGED <<users, schedules, rides, offers, ratings, now, accepted_by>>
    /\ UNCHANGED <<thrVars, cliVars, mtcVars, msgVars, sesVars, wireVars, drainVars, uiVars>>

\* recv_json returns None: the client closed the connection.
Close(t) ==
    /\ sock[t] = "open"
    /\ Finally(t)
    /\ last' = NoMsg
    /\ UNCHANGED <<users, schedules, rides, offers, ratings, now, accepted_by>>
    /\ UNCHANGED <<thrVars, cliVars, mtcVars, msgVars, sesVars, wireVars, drainVars, uiVars>>

\* The handler returned, or an exception left it and handle_client.
Ended(t) ==
    /\ IF last'.type = "EXCEPTION" THEN Finally(t) ELSE UNCHANGED presVars
    /\ UNCHANGED <<thrVars, cliVars, mtcVars, msgVars, sesVars, wireVars, uiVars>>

\* ... and none of its writes had to wait for room in a send buffer.
Handled(t) == Ended(t) /\ UNCHANGED drainVars

\* The user id of the first clients entry that holds connection t.
Inferred(t) ==
    LET held == {i \in DOMAIN clients : clients[i].conn = t}
    IN  IF held = {} THEN NULL
        ELSE clients[CHOOSE i \in held : \A j \in held : i <= j].username

ServeBroadcast(t) ==
    \E r \in {b \in Broadcasts : b.passenger_id = 1} :
      /\ t = 1
      /\ sock[t] = "open"
      /\ Admissible(r)
      /\ handle_broadcast_ride_request(r)
      /\ Handled(t)

ServeDriverResponse(t) ==
    \E r \in {d \in DriverResponses : d.driver_id # 1} :
      /\ t # 1
      /\ sock[t] = "open"
      /\ handle_driver_response(
             IF r.driver_id = NULL THEN [r EXCEPT !.driver_id = Inferred(t)]
             ELSE r,
             get_ride_by_id(r.ride_id))
      /\ Handled(t)

ServeCancelRide(t) ==
    \E r \in CancelRides :
      /\ sock[t] = "open"
      /\ handle_cancel_ride(r, get_ride_by_id(r.ride_id))
      /\ Handled(t)

NextPush ==
    \/ \E t \in Conns : Login(t)
    \/ \E t \in Conns : AnnouncePeer(t)
    \/ \E t \in Conns : Close(t)
    \/ \E t \in Conns : ServeBroadcast(t)
    \/ \E t \in Conns : ServeDriverResponse(t)
    \/ \E t \in Conns : ServeCancelRide(t)

\* User 1 a passenger, users 2 and 3 drivers, nobody asking for a rating.
InitPush ==
    /\ NobodyLoggedIn
    /\ users \in {u \in AnyUsers : \A i \in Users : u[i].min_rating = 0}
    /\ schedules = InitSchedules
    /\ rides = <<>>
    /\ offers = {}
    /\ ratings = <<>>
    /\ query = NoQuery
    /\ messages = <<>>
    /\ InitRest

SpecPush == InitPush /\ [][NextPush]_vars

(***************************************************************************)
(* SpecCalls: handle_client's dispatch.  A connection sends the request of  *)
(* an ApiClient method, or a request whose payload lacks a field the        *)
(* handler reads with p[...]; `last` is what the connection gets back, with *)
(* type EXCEPTION when the handler raised and nothing was sent.             *)
(***************************************************************************)
\* The SET_ROLE payloads of set_role(); min_rating is sent only when given.
SetRoles ==
    [type : {"SET_ROLE"}, user_id : Users, role : {"driver", "passenger"},
     min_rating : {{}, {0}, {3}}]

\* UPDATE users SET is_driver=?, area=?, role_selected=1 [, min_rating=?]
set_user_role(user_id, role, min_rating) ==
    users' = [users EXCEPT ![user_id] =
                [is_driver |-> (role = "driver"),
                 min_rating |-> IF min_rating = {} THEN @.min_rating
                                ELSE CHOOSE m \in min_rating : TRUE]]

handle_set_role(r) ==
    /\ IF users[r.user_id].is_driver /\ r.role # "driver"
       THEN /\ last' = Msg(r, "SET_ROLE_FAIL",
                           "Cannot change from driver to passenger", {})
            /\ UNCHANGED users
       ELSE /\ set_user_role(r.user_id, r.role, r.min_rating)
            /\ last' = Msg(r, "SET_ROLE_OK", "NONE", {})
    /\ UNCHANGED <<schedules, rides, offers, ratings, now, accepted_by>>

\* The handlers that only read the tables, and the type each answers with.
FetchTypes ==
    {"LIST_SCHEDULE", "FETCH_PENDING", "FETCH_RIDE_REQUESTS", "FETCH_RIDES",
     "LIST_CONTACTS", "FETCH_MESSAGES"}

FetchAnswer(type) ==
    CASE type = "LIST_SCHEDULE" -> "SCHEDULE_LIST"
      [] type = "FETCH_PENDING" -> "PENDING_RIDES"
      [] type = "FETCH_RIDE_REQUESTS" -> "RIDE_REQUEST_LIST"
      [] type = "FETCH_RIDES" -> "RIDES_LIST"
      [] type = "LIST_CONTACTS" -> "CONTACTS"
      [] type = "FETCH_MESSAGES" -> "MESSAGES"

\* The request types of request_drivers() and create_ride(), which
\* handle_client has no branch for.
UnknownTypes == {"REQUEST_RIDE", "CREATE_RIDE"}

\* The request types whose handler reads a payload field with p[...].
IndexedTypes ==
    FetchTypes \cup {"REGISTER", "LOGIN", "SET_ROLE", "ADD_SCHEDULE",
                     "DELETE_SCHEDULE", "BROADCAST_RIDE_REQUEST",
                     "UPDATE_RATING", "START_RIDE", "COMPLETE_RIDE",
                     "SEND_MESSAGE"}

ServeSetRole(t) ==
    \E r \in SetRoles :
      /\ sock[t] = "open"
      /\ handle_set_role(r)
      /\ Handled(t)

ServeFetch(t) ==
    \E type \in FetchTypes :
      /\ sock[t] = "open"
      /\ last' = Msg([type |-> type], FetchAnswer(type), "NONE", {})
      /\ UNCHANGED <<users, schedules, rides, offers, ratings, now, accepted_by>>
      /\ Handled(t)

\* else: send_json(conn, {"type": "ERROR", ...})
ServeUnknown(t) ==
    \E type \in UnknownTypes :
      /\ sock[t] = "open"
      /\ last' = Msg([type |-> type], "ERROR", "Unknown type", {})
      /\ UNCHANGED <<users, schedules, rides, offers, ratings, now, accepted_by>>
      /\ Handled(t)

\* p["field"] on a payload without the field: KeyError before anything is
\* written or sent.
ServeIncomplete(t) ==
    \E type \in IndexedTypes :
      /\ sock[t] = "open"
      /\ last' = Msg([type |-> type, incomplete |-> TRUE], "EXCEPTION",
                     "KeyError", {})
      /\ UNCHANGED <<users, schedules, rides, offers, ratings, now, accepted_by>>
      /\ Handled(t)

NextCalls ==
    \/ \E t \in Conns : ServeSetRole(t)
    \/ \E t \in Conns : ServeFetch(t)
    \/ \E t \in Conns : ServeUnknown(t)
    \/ \E t \in Conns : ServeIncomplete(t)
    \/ \E t \in Conns : ServeBroadcast(t)
    \/ \E t \in Conns : ServeCancelRide(t)

SpecCalls == InitPush /\ [][NextCalls]_vars

(***************************************************************************)
(* SpecRelay: the chat relay.  The accepted connections log in and close;  *)
(* a connection sends SEND_MESSAGE to a user name, with or without an      *)
(* attachment, and FETCH_MESSAGES for a pair of users.  A user name is the *)
(* user's id; NoUser is a name no user has.                                *)
(***************************************************************************)
NoUser == 4

\* The attachment_filename, attachment_mime and attachment_data of a
\* payload or of a row: all absent ("NULL": SQL NULL, None), or all given.
NoAttachment == [filename |-> "NULL", mime |-> "NULL", data |-> "NULL"]
Attachments ==
    {NoAttachment, [filename |-> "a.png", mime |-> "image/png", data |-> "aGk="]}

SendMessages ==
    [type : {"SEND_MESSAGE"}, to : {1, 2, NoUser}, message : {"hi"},
     attachment : Attachments]
FetchMessages ==
    [type : {"FETCH_MESSAGES"}, user_id : {1, 2}, partner_id : {1, 2}]

get_user_by_username(name) == IF name \in Users THEN name ELSE NULL

\* INSERT INTO messages (sender_id, receiver_id, body, sent_at): the
\* attachment columns of the row are NULL.
save_message(sender_id, receiver_id, body) ==
    messages' = Append(messages,
        [sender_id |-> sender_id, receiver_id |-> receiver_id, body |-> body,
         attachment |-> NoAttachment])

\* The rows between the two users, oldest first, at most the `limit` latest.
fetch_messages(user_id, partner_id) ==
    LET rows == SelectSeq(messages, LAMBDA m :
                    <<m.sender_id, m.receiver_id>>
                        \in {<<user_id, partner_id>>, <<partner_id, user_id>>})
    IN  SubSeq(rows, IF Len(rows) > FETCH_LIMIT THEN Len(rows) - FETCH_LIMIT + 1
                     ELSE 1, Len(rows))

\* handle_send_message on connection t.  The response is written after
\* `with db_lock`, then the CHAT_MESSAGE push: when the push raises, the
\* requester has its SEND_MESSAGE_OK already (status "OSError" records the
\* exception that then leaves the handler).
handle_send_message(t, r) ==
    LET sender == get_user_by_username(username[t])
        receiver == get_user_by_username(r.to)
        push == Deliver(<< [to |-> r.to, type |-> "CHAT_MESSAGE",
                            status |-> "NONE", ride_id |-> NULL,
                            driver_username |-> NULL, peer |-> FALSE] >>, {})
    IN  IF username[t] = NULL
        THEN /\ last' = Msg(r, "SEND_MESSAGE_FAIL", "Not authenticated", {})
             /\ UNCHANGED messages
        ELSE IF sender = NULL \/ receiver = NULL
        THEN /\ last' = Msg(r, "SEND_MESSAGE_FAIL", "User not found", {})
             /\ UNCHANGED messages
        ELSE /\ save_message(sender, receiver, r.message)
             /\ last' = Msg(r, "SEND_MESSAGE_OK",
                            IF push.raised THEN "OSError" ELSE "NONE", push.sent)

ServeSendMessage(t) ==
    \E r \in SendMessages :
      /\ sock[t] = "open"
      /\ Len(messages) < MaxStored
      /\ handle_send_message(t, r)
      /\ IF last'.status = "OSError" THEN Finally(t) ELSE UNCHANGED presVars
      /\ UNCHANGED <<contacts, fetched>>
      /\ UNCHANGED <<users, schedules, rides, offers, ratings, now, accepted_by>>
      /\ UNCHANGED <<thrVars, cliVars, mtcVars, sesVars, wireVars, drainVars, uiVars>>

\* handle_fetch_messages: messages = fetch_messages(user_id, partner_id).
ServeFetchMessages(t) ==
    \E r \in FetchMessages :
      /\ sock[t] = "open"
      /\ fetched' = [done |-> TRUE, rows |-> fetch_messages(r.user_id, r.partner_id)]
      /\ last' = Msg(r, "MESSAGES", "NONE", {})
      /\ UNCHANGED <<messages, contacts, presVars>>
      /\ UNCHANGED <<users, schedules, rides, offers, ratings, now, accepted_by>>
      /\ UNCHANGED <<thrVars, cliVars, mtcVars, sesVars, wireVars, drainVars, uiVars>>

NextRelay ==
    \/ \E t \in Conns : Login(t)
    \/ \E t \in Conns : Close(t)
    \/ \E t \in Conns : ServeSendMessage(t)
    \/ \E t \in Conns : ServeFetchMessages(t)

InitRelay ==
    /\ NobodyLoggedIn
    /\ users \in {u \in AnyUsers : \A i \in Users : u[i].min_rating = 0}
    /\ schedules = {}
    /\ rides = <<>>
    /\ offers = {}
    /\ ratings = <<>>
    /\ query = NoQuery
    /\ messages = <<>>
    /\ InitRest

SpecRelay == InitRelay /\ [][NextRelay]_vars

(***************************************************************************)
(* SpecFrame: one direction of connection 1, byte by byte.  The peer       *)
(* writes frames with send_json, or bytes of its own, and closes or resets *)
(* the connection; handle_client reads with recv_json, each recv returning *)
(* any non-empty prefix of the bytes in flight.  A message is two bytes    *)
(* long: its text up to the closing brace, and the brace.                  *)
(***************************************************************************)
\* The messages the peer sends with send_json.
FrameMsgs == {"FETCH_RIDES", "LIST_CONTACTS"}

\* json.dumps(data).encode()
dumps(m) == <<m, "}">>

\* send_json: the text of the message and a newline, in one sendall.
send_json(m) == dumps(m) \o <<"\n">>

\* What a peer that does not use send_json writes: a line that is not JSON,
\* a line that is not UTF-8, more than max_bytes without a newline, and a
\* message without its newline.
RawWrites ==
    {<<"{", "\n">>, <<"xFF", "\n">>, <<"Ballast">>, dumps("FETCH_RIDES")}

\* The index of the first newline of bytes, 0 when there is none.
find(bytes) ==
    IF \E i \in DOMAIN bytes : bytes[i] = "\n"
    THEN CHOOSE i \in DOMAIN bytes :
            /\ bytes[i] = "\n"
            /\ \A j \in 1..(i - 1) : bytes[j] # "\n"
    ELSE 0

\* json.loads(msg_bytes.decode().strip()): decode raises on bytes that are
\* not UTF-8; a JSONDecodeError is caught and None returned.
loads(bytes) ==
    IF \E i \in DOMAIN bytes : bytes[i] = "xFF" THEN "UnicodeDecodeError"
    ELSE IF \E m \in FrameMsgs : bytes = dumps(m) THEN bytes[1]
    ELSE "None"

\* What handle_client does with what recv_json gave: None ends the loop, an
\* exception leaves it, and both run the finally; a message is dispatched.
Looped(result) ==
    IF result \in FrameMsgs THEN UNCHANGED presVars ELSE Finally(1)

\* The peer calls send_json.
SendJson ==
    \E m \in FrameMsgs :
      /\ Len(written) < MaxWrites
      /\ sock[1] = "open"
      /\ wire' = wire \o send_json(m)
      /\ written' = Append(written, m)
      /\ UNCHANGED <<buf, returned, sending>>
      /\ UNCHANGED <<srvVars, cliVars, mtcVars, msgVars, presVars, sesVars, drainVars, uiVars>>

\* The peer writes bytes of its own.
SendRaw ==
    \E bytes \in RawWrites :
      /\ Len(written) < MaxWrites
      /\ sock[1] = "open"
      /\ wire' = wire \o bytes
      /\ written' = Append(written, "raw")
      /\ UNCHANGED <<buf, returned, sending>>
      /\ UNCHANGED <<srvVars, cliVars, mtcVars, msgVars, presVars, sesVars, drainVars, uiVars>>

\* One conn.recv(4096) of recv_json's loop returns k bytes.  With a newline
\* in buf the call returns what is before it and buf, a local, is gone;
\* with more than max_bytes and no newline it returns None.
RecvChunk ==
    \E k \in 1..Len(wire) :
      LET got == buf \o SubSeq(wire, 1, k)
          idx == find(got)
          big == \E i \in DOMAIN got : got[i] = "Ballast"
          result == IF idx # 0 THEN loads(SubSeq(got, 1, idx - 1))
                    ELSE "None"
      IN  /\ sock[1] = "open"
          /\ wire' = SubSeq(wire, k + 1, Len(wire))
          /\ IF idx # 0 \/ big
             THEN /\ buf' = <<>>
                  /\ returned' = Append(returned, result)
                  /\ Looped(result)
             ELSE /\ buf' = got
                  /\ UNCHANGED returned
                  /\ UNCHANGED presVars
          /\ UNCHANGED <<written, sending>>
          /\ UNCHANGED <<srvVars, cliVars, mtcVars, msgVars, sesVars, drainVars, uiVars>>

\* The peer closed: recv returns b''.  With an empty buf the call returns
\* None; else it parses what it has, and the call after it returns None.
RecvEOF ==
    LET result == IF buf = <<>> THEN "None" ELSE loads(buf)
    IN  /\ sock[1] = "open"
        /\ wire = <<>>
        /\ buf' = <<>>
        /\ returned' = IF result \in FrameMsgs
                       THEN returned \o <<result, "None">>
                       ELSE Append(returned, result)
        /\ Finally(1)
        /\ UNCHANGED <<wire, written, sending>>
        /\ UNCHANGED <<srvVars, cliVars, mtcVars, msgVars, sesVars, drainVars, uiVars>>

\* The peer reset the connection: recv raises ConnectionResetError, which
\* recv_json catches.
RecvReset ==
    /\ sock[1] = "open"
    /\ wire' = <<>>
    /\ buf' = <<>>
    /\ returned' = Append(returned, "None")
    /\ Finally(1)
    /\ UNCHANGED <<written, sending>>
    /\ UNCHANGED <<srvVars, cliVars, mtcVars, msgVars, sesVars, drainVars, uiVars>>

NextFrame ==
    \/ SendJson
    \/ SendRaw
    \/ RecvChunk
    \/ RecvEOF
    \/ RecvReset

\* Connections 1 and 2 logged in, nothing written yet.
InitFrame ==
    /\ DriversLoggedIn
    /\ users \in InitUsers
    /\ schedules = InitSchedules
    /\ rides = <<>>
    /\ offers = {}
    /\ ratings = <<>>
    /\ query = NoQuery
    /\ messages = <<>>
    /\ InitRest

SpecFrame == InitFrame /\ [][NextFrame]_vars

(***************************************************************************)
(* SpecSend: the server's threads writing to connection 1.  The handler    *)
(* thread of the connection answers its client's requests with send_json;  *)
(* another handler thread pushes to the same socket through                *)
(* send_to_username.  Neither holds a lock while it writes, and sendall    *)
(* hands its bytes to the socket a piece at a time.                        *)
(***************************************************************************)
\* What writer w sends: a response of handle_fetch_messages, or the push of
\* handle_send_message.
Sends(w) == IF w = 1 THEN "MESSAGES" ELSE "CHAT_MESSAGE"

\* send_json enters conn.sendall(msg.encode()).
SendAll(w) ==
    /\ sock[1] = "open"
    /\ sending[w] = <<>>
    /\ Len(written) < MaxWrites
    /\ w = 1 \/ \E i \in DOMAIN clients : clients[i].conn = 1
    /\ sending' = [sending EXCEPT ![w] = send_json(Sends(w))]
    /\ written' = Append(written, Sends(w))
    /\ UNCHANGED <<wire, buf, returned>>
    /\ UNCHANGED <<srvVars, cliVars, mtcVars, msgVars, presVars, sesVars, drainVars, uiVars>>

\* sendall: one send() takes the next k bytes; it returns after the last.
SendPiece(w) ==
    \E k \in 1..Len(sending[w]) :
      /\ sock[1] = "open"
      /\ wire' = wire \o SubSeq(sending[w], 1, k)
      /\ sending' = [sending EXCEPT
                       ![w] = SubSeq(sending[w], k + 1, Len(sending[w]))]
      /\ UNCHANGED <<buf, written, returned>>
      /\ UNCHANGED <<srvVars, cliVars, mtcVars, msgVars, presVars, sesVars, drainVars, uiVars>>

NextSend ==
    \/ \E w \in Writers : SendAll(w)
    \/ \E w \in Writers : SendPiece(w)

SpecSend == InitFrame /\ [][NextSend]_vars

(***************************************************************************)
(* SpecDrain: the send buffers of the server's sockets.  Every user is     *)
(* logged in, user u on connection u.  A push is a sendall on the          *)
(* recipient's blocking socket, called inside `with db_lock`: it returns   *)
(* once the frame is in the socket's send buffer, which has room again     *)
(* when the recipient's client has read (Drain).                           *)
(***************************************************************************)
AllLoggedIn ==
    /\ username = [t \in Conns |-> t]
    /\ clients = [t \in Conns |->
                    [username |-> t, conn |-> t, peer |-> FALSE]]

\* The handler thread is in no sendall.
NotStuck == [on |-> NULL, rest |-> {}, req |-> NoReq]

\* The users the handler of r calls send_to_username for, inside the lock.
Recipients(r) ==
    IF r.type = "BROADCAST_RIDE_REQUEST"
    THEN eligible_drivers(r.passenger_id, r.q)
    ELSE LET ride == get_ride_by_id(r.ride_id)
         IN  IF r.driver_id = NULL \/ ride.status # "PENDING" THEN {}
             ELSE {ride.passenger_id}
                  \cup IF r.status = "ACCEPTED"
                       THEN other_driver_ids(r.ride_id, r.driver_id)
                       ELSE {}

\* The sockets send_to_username writes to for these users.
ConnsOf(us) == {Client(u).conn : u \in {x \in us : HasClient(x)}}

\* Those of the sockets whose send buffer is full.
Full(cs) == {c \in cs : room[c] = 0}

\* The send buffers after a frame went into each of these sockets'.
Took(cs) == [c \in Conns |-> IF c \in cs THEN room[c] - 1 ELSE room[c]]

\* What the client on connection t sends: the passenger broadcasts, a
\* driver answers.
DrainRequests(t) ==
    IF t = 1 THEN {b \in Broadcasts : b.passenger_id = 1}
    ELSE {d \in DriverResponses : d.driver_id = t}

\* The handler of a broadcast or a driver response, every push of which
\* finds room.
ServePushing(t) ==
    \E r \in DrainRequests(t) :
      /\ stuck[t] = NotStuck
      /\ db_lock = NULL
      /\ Admissible(r)
      /\ Full(ConnsOf(Recipients(r))) = {}
      /\ IF r.type = "BROADCAST_RIDE_REQUEST"
         THEN handle_broadcast_ride_request(r)
         ELSE handle_driver_response(r, get_ride_by_id(r.ride_id))
      /\ room' = Took(ConnsOf(Recipients(r)))
      /\ UNCHANGED stuck
      /\ Ended(t)

\* The same handler when a recipient's send buffer is full: the tables are
\* written, the pushes before that one are out, and the thread waits in
\* sendall, inside `with db_lock`.
ServeWaits(t) ==
    \E r \in DrainRequests(t) :
      LET cs == ConnsOf(Recipients(r))
          on == CHOOSE c \in Full(cs) : \A d \in Full(cs) : c <= d
      IN  /\ stuck[t] = NotStuck
          /\ db_lock = NULL
          /\ Admissible(r)
          /\ Full(cs) # {}
          /\ IF r.type = "BROADCAST_RIDE_REQUEST"
             THEN create_ride_request(r.passenger_id,
                                      eligible_drivers(r.passenger_id, r.q))
             ELSE IF r.status = "ACCEPTED"
             THEN accept_ride_request(r.ride_id, r.driver_id)
             ELSE UNCHANGED <<rides, offers>>
          /\ room' = Took({c \in cs : c < on})
          /\ stuck' = [stuck EXCEPT
                         ![t] = [on |-> on, rest |-> {c \in cs : c > on},
                                 req |-> r]]
          /\ db_lock' = t
          /\ last' = NoMsg
          /\ UNCHANGED <<users, schedules, ratings, now, pc, req, snap,
                         accepted_by>>
          /\ UNCHANGED <<cliVars, mtcVars, msgVars, presVars, sesVars,
                         wireVars, uiVars>>

\* The recipient has read: the sendall returns and the handler goes on, to
\* its next push, or to its response and out of the lock.
Resume(t) ==
    LET s == stuck[t]
        full == Full(s.rest)
        next == CHOOSE c \in full : \A d \in full : c <= d
    IN  /\ s # NotStuck
        /\ room[s.on] > 0
        /\ IF full = {}
           THEN /\ room' = Took({s.on} \cup s.rest)
                /\ stuck' = [stuck EXCEPT ![t] = NotStuck]
                /\ db_lock' = NULL
                /\ last' = IF s.req.type = "BROADCAST_RIDE_REQUEST"
                           THEN [Msg(s.req, "BROADCAST_OK", "NONE", {})
                                   EXCEPT !.ride_id = Len(rides)]
                           ELSE Msg(s.req, "DRIVER_RESPONSE_OK",
                                    s.req.status, {})
                /\ accepted_by' =
                     IF s.req.type = "DRIVER_RESPONSE"
                        /\ s.req.status = "ACCEPTED"
                     THEN [accepted_by EXCEPT
                             ![s.req.ride_id] = @ \cup {s.req.driver_id}]
                     ELSE accepted_by
           ELSE /\ room' = Took({s.on} \cup {c \in s.rest : c < next})
                /\ stuck' = [stuck EXCEPT
                               ![t] = [s EXCEPT
                                         !.on = next,
                                         !.rest = {c \in s.rest : c > next}]]
                /\ last' = NoMsg
                /\ UNCHANGED <<db_lock, accepted_by>>
        /\ UNCHANGED <<users, schedules, rides, offers, ratings, now, pc, req,
                       snap>>
        /\ UNCHANGED <<cliVars, mtcVars, msgVars, presVars, sesVars, wireVars, uiVars>>

\* The client on connection c reads what is in its socket.
Drain(c) ==
    /\ room[c] < BufFrames
    /\ room' = [room EXCEPT ![c] = BufFrames]
    /\ UNCHANGED stuck
    /\ UNCHANGED <<srvVars, cliVars, mtcVars, msgVars, presVars, sesVars,
                   wireVars, uiVars>>

\* A request that reads the tables: `with db_lock`, then the response.
ServeReading(t) ==
    /\ stuck[t] = NotStuck
    /\ db_lock = NULL
    /\ ServeFetch(t)

NextDrain ==
    \/ \E t \in Conns : ServePushing(t)
    \/ \E t \in Conns : ServeWaits(t)
    \/ \E t \in Conns : Resume(t)
    \/ \E c \in Conns : Drain(c)
    \/ \E t \in Conns : ServeReading(t)

InitDrain ==
    /\ AllLoggedIn
    /\ users \in {u \in AnyUsers : \A i \in Users : u[i].min_rating = 0}
    /\ schedules = InitSchedules
    /\ rides = <<>>
    /\ offers = {}
    /\ ratings = <<>>
    /\ query = NoQuery
    /\ messages = <<>>
    /\ InitRest

SpecDrain == InitDrain /\ [][NextDrain]_vars

(***************************************************************************)
(* SpecChat: MessagesTab.send_message on the user interface thread, which  *)
(* is caller 1 of the ApiClient: the direct send to the peer, and the      *)
(* relay through api.send_message, a _send_and_wait call like any other.   *)
(***************************************************************************)
\* The direct path with the outcome of peer_send left out of the test.
TakesDirect_AddressOnly(addr, sent) == addr

\* if peer_ip and peer_port: try: peer_send(...) ... return.  peer_send
\* raises when connect or sendall fails and returns otherwise.
TakesDirect(addr, sent) == addr /\ sent

UI == 1

\* send_message with a contact chosen and a text typed.
ChatSend ==
    \E addr \in BOOLEAN, sent \in BOOLEAN :
      LET k == chat.n + 1
          said == [chat EXCEPT !.n = k,
                               !.tried = Append(@, [addr |-> addr,
                                                    sent |-> addr /\ sent])]
      IN  /\ chat.n < MaxChat
          /\ chat.pending = 0
          /\ cpc[UI] = "idle"
          /\ IF TakesDirect(addr, sent)
             THEN /\ chat' = [said EXCEPT !.direct = Append(@, k),
                                          !.shown = Append(@, k)]
                  /\ UNCHANGED cliVars
             ELSE \* api.send_message(...): _send_and_wait is entered
                  /\ n_calls < MaxCalls
                  /\ n_calls' = n_calls + 1
                  /\ call' = [call EXCEPT
                                ![UI] = [msg_type |-> "SEND_MESSAGE",
                                         expected |-> Expected("SEND_MESSAGE"),
                                         id |-> n_calls + 1]]
                  /\ chat' = [said EXCEPT !.pending = k]
                  /\ IF ensure_connection
                     THEN /\ cpc' = [cpc EXCEPT ![UI] = "lock"]
                          /\ outcome' = [outcome EXCEPT ![UI] = NoneMsg]
                     ELSE /\ cpc' = cpc
                          /\ outcome' = [outcome EXCEPT
                                           ![UI] = Raised("NotConnected")]
                  /\ UNCHANGED <<connected, reader, link, send_lock,
                                 wait_types, wait_response, wait_event,
                                 async_events, outbox, inbox, n_msgs>>
          /\ UNCHANGED <<drain, drained>>
          /\ UNCHANGED <<srvVars, mtcVars, msgVars, presVars, sesVars,
                         wireVars, drainVars>>

\* send_json(sock, {"type": "SEND_MESSAGE", ...}) of the relay call returns.
ChatWrite ==
    /\ chat.pending # 0
    /\ send(UI)
    /\ chat' = [chat EXCEPT !.relayed = Append(@, chat.pending)]
    /\ UNCHANGED <<drain, drained>>
    /\ UNCHANGED <<srvVars, mtcVars, msgVars, presVars, sesVars, wireVars,
                   drainVars>>

\* api.send_message returned or raised: with SEND_MESSAGE_OK the message is
\* appended to the chat history; else it is not, and boxes records why.
ChatDone ==
    /\ chat.pending # 0
    /\ cpc[UI] = "idle"
    /\ chat' = IF outcome[UI].type = "SEND_MESSAGE_OK"
               THEN [chat EXCEPT !.shown = Append(@, chat.pending),
                                 !.pending = 0]
               ELSE [chat EXCEPT !.boxes = Append(@, [k |-> chat.pending,
                                                      why |-> outcome[UI].type]),
                                 !.pending = 0]
    /\ UNCHANGED <<drain, drained>>
    /\ UNCHANGED cliVars
    /\ UNCHANGED <<srvVars, mtcVars, msgVars, presVars, sesVars, wireVars,
                   drainVars>>

NextChat ==
    \/ ChatSend
    \/ ChatWrite
    \/ ChatDone
    \/ Begin(UI)
    \/ SendFails(UI)
    \/ Wait(UI)
    \/ TimeOut(UI)
    \/ Expire(UI)
    \/ Return(UI)
    \/ RecvLoop
    \/ RecvLoopEnd
    \/ ServerRespond
    \/ ServerClose

SpecChat == Init /\ [][NextChat]_vars

(***************************************************************************)
(* SpecEvents: drain_events on the user interface thread, next to the      *)
(* reader thread and the calls of caller 1.                                *)
(***************************************************************************)
\* A queue that hands out its newest item.
get_nowait_Newest(q) ==
    [item |-> q[Len(q)], rest |-> SubSeq(q, 1, Len(q) - 1)]

\* self._async_events.get_nowait() on a queue that is not empty.
get_nowait(q) == [item |-> Head(q), rest |-> Tail(q)]

\* drain_events is called.
DrainEvents ==
    /\ ~drain.running
    /\ drain' = [running |-> TRUE, events |-> <<>>]
    /\ UNCHANGED <<chat, drained>>
    /\ UNCHANGED cliVars
    /\ UNCHANGED <<srvVars, mtcVars, msgVars, presVars, sesVars, wireVars,
                   drainVars>>

\* msg = self._async_events.get_nowait(); events.append(ApiEvent(...))
DrainGet ==
    /\ drain.running
    /\ async_events # <<>>
    /\ async_events' = get_nowait(async_events).rest
    /\ drain' = [drain EXCEPT
                   !.events = Append(@, get_nowait(async_events).item)]
    /\ UNCHANGED <<chat, drained>>
    /\ UNCHANGED <<connected, reader, link, send_lock, wait_types,
                   wait_response, wait_event, cpc, call, outcome, outbox,
                   inbox, n_calls, n_msgs>>
    /\ UNCHANGED <<srvVars, mtcVars, msgVars, presVars, sesVars, wireVars,
                   drainVars>>

\* get_nowait raises Empty: break; return events.
DrainReturn ==
    /\ drain.running
    /\ async_events = <<>>
    /\ drained' = drained \o drain.events
    /\ drain' = NoDrain
    /\ UNCHANGED chat
    /\ UNCHANGED cliVars
    /\ UNCHANGED <<srvVars, mtcVars, msgVars, presVars, sesVars, wireVars,
                   drainVars>>

NextEvents ==
    \/ DrainEvents
    \/ DrainGet
    \/ DrainReturn
    \/ Call(UI)
    \/ Begin(UI)
    \/ Send(UI)
    \/ SendFails(UI)
    \/ Wait(UI)
    \/ TimeOut(UI)
    \/ Expire(UI)
    \/ Return(UI)
    \/ RecvLoop
    \/ RecvLoopEnd
    \/ ServerRespond
    \/ ServerPush
    \/ ServerClose

SpecEvents == Init /\ [][NextEvents]_vars

(***************************************************************************)
(* Properties of the server.                                               *)
(***************************************************************************)
OffersOf(ride_id) == {o \in offers : o[1] = ride_id}

\* Thread t finishes handling an accept request in this step.
AnswersAccept(t) ==
    /\ pc[t] = "locked" /\ pc'[t] = "idle"
    /\ req[t].type = "DRIVER_RESPONSE" /\ req[t].status = "ACCEPTED"

\* C1: of the accept requests that different drivers have in flight for a
\* ride, the one handled while the ride is PENDING is answered ACCEPTED and
\* becomes the ride's driver; every accept handled once the ride is no longer
\* PENDING is answered CLOSED and changes nothing.  So at most one driver is
\* ever answered ACCEPTED for a ride, and the ride's driver_id is that driver.
C1_ExactlyOneAcceptance ==
    /\ [](\A i \in RideIds :
            /\ Cardinality(accepted_by[i]) <= 1
            /\ \A d \in accepted_by[i] : get_ride_by_id(i).driver_id = d)
    /\ [][\A t \in Threads : AnswersAccept(t) =>
            /\ last'.type = "DRIVER_RESPONSE_OK"
            /\ IF get_ride_by_id(req[t].ride_id).status = "PENDING"
               THEN /\ last'.status = "ACCEPTED"
                    /\ rides'[req[t].ride_id].driver_id = req[t].driver_id
                    /\ rides'[req[t].ride_id].status = "ACCEPTED"
                    /\ accepted_by'[req[t].ride_id] = {req[t].driver_id}
               ELSE /\ last'.status = "CLOSED"
                    /\ rides' = rides
                    /\ accepted_by' = accepted_by]_vars

\* One driver has just been answered ACCEPTED while another driver's accept
\* for the same ride, received before that answer, waits for db_lock.
C1_Witness ==
    \E t \in Threads :
      /\ pc[t] = "waiting"
      /\ req[t].type = "DRIVER_RESPONSE" /\ req[t].status = "ACCEPTED"
      /\ last.type = "DRIVER_RESPONSE_OK" /\ last.status = "ACCEPTED"
      /\ last.req.ride_id = req[t].ride_id
      /\ last.req.driver_id # req[t].driver_id

\* C2: a ride whose status is not PENDING has no ride_offers row.
C2_NoOffersOffPending ==
    \A i \in DOMAIN rides : rides[i].status # "PENDING" => OffersOf(i) = {}

\* The drivers the matching query returns for a broadcast request.
MatchedDrivers(r) ==
    find_drivers(r.q.direction, r.q.day, r.q.time, r.q.area,
                 users[r.passenger_id].min_rating)

\* No driver is eligible: none is matched, or every matched driver asks for a
\* higher passenger rating than the passenger's average.
NoneEligible(r) ==
    \A d \in MatchedDrivers(r) :
        ~AvgAtLeast(r.passenger_id, "passenger", users[d].min_rating)

\* C3: a BROADCAST_RIDE_REQUEST for which no driver is eligible is answered
\* NO_DRIVERS_FOUND and leaves rides and ride_offers unchanged; and a step
\* that adds a ride adds at least one offer for it.
C3_NoOrphanRides ==
    [][/\ (last'.req.type = "BROADCAST_RIDE_REQUEST" /\ NoneEligible(last'.req))
            => /\ last'.type = "NO_DRIVERS_FOUND"
               /\ rides' = rides
               /\ offers' = offers
       /\ Len(rides') > Len(rides)
            => \E o \in offers' : o[1] = Len(rides') /\ o \notin offers]_vars

\* A request that matched a driver was answered NO_DRIVERS_FOUND: the
\* driver-side filter removed every matched driver.
C3_Witness ==
    /\ last.type = "NO_DRIVERS_FOUND"
    /\ MatchedDrivers(last.req) # {}
    /\ NoneEligible(last.req)

LifecycleEdges ==
    { <<"PENDING", "ACCEPTED">>, <<"ACCEPTED", "STARTED">>,
      <<"STARTED", "COMPLETED">>, <<"PENDING", "CANCELLED">>,
      <<"ACCEPTED", "CANCELLED">>, <<"STARTED", "CANCELLED">> }

\* C4: every change of a ride's status follows an edge of the lifecycle.
C4_LifecycleEdges ==
    [][\A i \in DOMAIN rides :
          rides'[i].status # rides[i].status
            => <<rides[i].status, rides'[i].status>> \in LifecycleEdges]_vars

\* The ride an UPDATE_RATING request names, when its rater is a participant.
RatedByParticipant(r) ==
    /\ r.type = "UPDATE_RATING"
    /\ get_ride_by_id(r.ride_id).status # "NONE"
    /\ r.rater_user_id \in {get_ride_by_id(r.ride_id).passenger_id,
                            get_ride_by_id(r.ride_id).driver_id}

InRatingWindow(ride) ==
    ride.completed_at # NoTime /\ now - ride.completed_at <= RATING_WINDOW

\* C9: UPDATE_RATING by a ride participant is answered UPDATE_RATING_OK, with
\* the rating written, exactly when the ride has a completion timestamp and
\* now - completed_at <= 36 hours; otherwise it is answered UPDATE_RATING_FAIL
\* "Rating window closed" and the ratings table is unchanged.
C9_RatingWindow ==
    [][RatedByParticipant(last'.req) =>
         IF InRatingWindow(get_ride_by_id(last'.req.ride_id))
         THEN /\ last'.type = "UPDATE_RATING_OK"
              /\ \E i \in 1..Len(ratings') :
                   /\ ratings'[i].ride_id = last'.req.ride_id
                   /\ ratings'[i].rater_user_id = last'.req.rater_user_id
                   /\ ratings'[i].rating = last'.req.rating
         ELSE /\ last'.type = "UPDATE_RATING_FAIL"
              /\ last'.status = "Rating window closed"
              /\ ratings' = ratings]_vars

RowsOf(ride_id, rater_user_id) ==
    {i \in 1..Len(ratings) : /\ ratings[i].ride_id = ride_id
                             /\ ratings[i].rater_user_id = rater_user_id}

\* C10: the ratings table holds at most one row per (ride_id, rater_user_id),
\* and after a successful UPDATE_RATING that one row holds the score just
\* submitted.
C10_OneRowPerRater ==
    /\ \A i, j \in 1..Len(ratings) :
         (/\ ratings[i].ride_id = ratings[j].ride_id
          /\ ratings[i].rater_user_id = ratings[j].rater_user_id) => i = j
    /\ last.type = "UPDATE_RATING_OK" =>
         \E i \in RowsOf(last.req.ride_id, last.req.rater_user_id) :
            ratings[i].rating = last.req.rating

\* A successful rating has just rewritten the first row although a later row
\* exists: the rater's earlier row was replaced, not duplicated.
C10_Witness ==
    /\ last.type = "UPDATE_RATING_OK"
    /\ Len(ratings) = 2
    /\ RowsOf(last.req.ride_id, last.req.rater_user_id) = {1}

(***************************************************************************)
(* Properties of the matching engine.                                      *)
(***************************************************************************)
\* Equal but for letter case and '_' written for ' '.
SameText(a, b) == LowerStr(Replace(a, "_", " ")) = LowerStr(Replace(b, "_", " "))

\* The day of the week after the given one.
DayAfter(day) ==
    CASE day = "Monday" -> "Tuesday" [] day = "Tuesday" -> "Wednesday"
      [] day = "Wednesday" -> "Thursday" [] day = "Thursday" -> "Friday"
      [] day = "Friday" -> "Saturday" [] day = "Saturday" -> "Sunday"
      [] day = "Sunday" -> "Monday"

\* The window of the call ends after midnight.
Wraps(q) == q.time + WINDOW_MINUTES >= DAY_MINUTES

\* User u has an entry for the call's direction and area on the given day
\* with lo <= time < hi.
Covers(u, q, day, lo, hi) ==
    \E s \in schedules :
      /\ s.user_id = u
      /\ SameText(s.direction, q.direction)
      /\ SameText(s.area, q.area)
      /\ s.day = day
      /\ lo <= s.time /\ s.time < hi

\* A driver whose average driver rating reaches the call's min_rating.
RatedDriver(u, q) == users[u].is_driver /\ AvgAtLeast(u, "driver", q.min_rating)

\* C11: when the window of a call for day d and time t ends after midnight,
\* find_drivers returns exactly the drivers with a matching entry on day d at
\* time >= t or on the day after d at time < t + 15 min - 24 h, whatever the
\* day d (the day after Sunday being Monday).
C11_WrapsToNextDay ==
    (found.done /\ Wraps(query)) =>
        found.ids = {u \in Users :
                   /\ RatedDriver(u, query)
                   /\ \/ Covers(u, query, query.day, query.time, DAY_MINUTES)
                      \/ Covers(u, query, DayAfter(query.day), 0,
                                query.time + WINDOW_MINUTES - DAY_MINUTES)}

MutuallyAcceptable(passenger_id, d) ==
    /\ AvgAtLeast(d, "driver", users[passenger_id].min_rating)
    /\ AvgAtLeast(passenger_id, "passenger", users[d].min_rating)

\* C13: a broadcast creates an offer for a driver, and pushes RIDE_REQUEST to
\* that driver, only if the driver's average driver rating is at least the
\* passenger's min_rating and the passenger's average passenger rating is at
\* least the driver's min_rating.
C13_MutualMinRating ==
    [][last'.req.type = "BROADCAST_RIDE_REQUEST" =>
         /\ \A o \in offers' \ offers :
               MutuallyAcceptable(last'.req.passenger_id, o[2])
         /\ \A push \in last'.pushes :
               push.type = "RIDE_REQUEST" =>
                  MutuallyAcceptable(last'.req.passenger_id, push.to)]_vars

\* Passenger 1, who asks for drivers rated 3 or more, has broadcast: driver 2,
\* rated 2 and 5, got the only offer; driver 3, matched by schedule but never
\* rated, got none.
C13_Witness ==
    /\ last.type = "BROADCAST_OK"
    /\ last.req.passenger_id = 1
    /\ users[1].min_rating = 3
    /\ {ratings[i].rating : i \in RatingRows(2, "driver")} = {2, 5}
    /\ OffersOf(Len(rides)) = {<<Len(rides), 2>>}
    /\ {push.to : push \in last.pushes} = {2}
    /\ \A push \in last.pushes : push.type = "RIDE_REQUEST"
    /\ \E s \in schedules :
         /\ s.user_id = 3 /\ s.day = last.req.q.day
         /\ s.time \in last.req.q.time .. last.req.q.time + WINDOW_MINUTES - 1

(***************************************************************************)
(* Properties of the chat.                                                 *)
(***************************************************************************)
\* A ride has one of the two users as passenger and the other as driver, or
\* a message went from one of them to the other.
Related(a, b) ==
    \/ \E i \in DOMAIN rides :
         \/ rides[i].passenger_id = a /\ rides[i].driver_id = b
         \/ rides[i].passenger_id = b /\ rides[i].driver_id = a
    \/ \E i \in DOMAIN messages :
         <<messages[i].sender_id, messages[i].receiver_id>> \in {<<a, b>>, <<b, a>>}

\* C14: for two distinct users a and b, list_contacts(a) contains b exactly
\* when list_contacts(b) contains a, and that is exactly when a ride has one
\* of them as passenger and the other as driver or a message went between
\* them in either direction.
C14_ContactsSymmetric ==
    \A a, b \in Users :
        (a # b /\ contacts[a].done /\ contacts[b].done) =>
            /\ b \in contacts[a].ids <=> a \in contacts[b].ids
            /\ b \in contacts[a].ids <=> Related(a, b)

\* Users 1 and 2 list each other because of a single message from 2 to 1;
\* user 3, whose ride has no driver, is in neither list and lists nobody.
C14_Witness ==
    /\ \A u \in Users : contacts[u].done
    /\ contacts[1].ids = {2} /\ contacts[2].ids = {1} /\ contacts[3].ids = {}
    /\ \A i \in DOMAIN rides :
         rides[i].passenger_id = 3 /\ rides[i].driver_id = NULL
    /\ rides # <<>>
    /\ messages = << [sender_id |-> 2, receiver_id |-> 1] >>

(***************************************************************************)
(* Properties of the pushes.                                               *)
(***************************************************************************)
\* Some open connection's latest successful login is user u.
Connected(u) == \E t \in Conns : sock[t] = "open" /\ username[t] = u

\* The push of the given type about the ride was written to user u.
Pushed(u, type, ride_id) ==
    \E push \in last'.pushes :
        push.to = u /\ push.type = type /\ push.ride_id = ride_id

\* C15: a BROADCAST_RIDE_REQUEST answered BROADCAST_OK has stored exactly one
\* new ride, PENDING with no driver, and exactly one ride_offers row for each
\* eligible driver; it has pushed RIDE_REQUEST with the ride's id to every
\* eligible driver that is connected, and BROADCAST_OK carries the same id.
C15_BroadcastFanOut ==
    [][(last'.req.type = "BROADCAST_RIDE_REQUEST" /\ last'.type = "BROADCAST_OK") =>
         LET ride_id == Len(rides) + 1
             eligible == {d \in MatchedDrivers(last'.req) :
                            MutuallyAcceptable(last'.req.passenger_id, d)}
         IN  /\ rides' = Append(rides, [passenger_id |-> last'.req.passenger_id,
                                         driver_id |-> NULL,
                                         status |-> "PENDING",
                                         completed_at |-> NoTime])
             /\ offers' = offers \cup {<<ride_id, d>> : d \in eligible}
             /\ \A o \in offers : o[1] # ride_id
             /\ \A d \in eligible :
                   Connected(d) => Pushed(d, "RIDE_REQUEST", ride_id)
             /\ last'.ride_id = ride_id]_vars

\* The clients entry of driver d holds the peer address d announced.
PeerAnnounced(d) == HasClient(d) /\ Client(d).peer

\* C16: when an accept is answered ACCEPTED, every connected driver other
\* than the acceptor that held an offer for the ride is pushed
\* RIDE_UNAVAILABLE with the ride's id, the acceptor is not, and the connected
\* passenger is pushed DRIVER_RESPONSE {ACCEPTED} with the driver's username
\* and, exactly when the driver has announced a peer port, the peer address.
C16_AcceptPushes ==
    [][(/\ last'.req.type = "DRIVER_RESPONSE"
        /\ last'.type = "DRIVER_RESPONSE_OK"
        /\ last'.status = "ACCEPTED") =>
         LET ride_id == last'.req.ride_id
             acceptor == last'.req.driver_id
             passenger == rides[ride_id].passenger_id
             holders == {o[2] : o \in OffersOf(ride_id)}
         IN  /\ \A d \in holders \ {acceptor} :
                   Connected(d) => Pushed(d, "RIDE_UNAVAILABLE", ride_id)
             /\ ~Pushed(acceptor, "RIDE_UNAVAILABLE", ride_id)
             /\ Connected(passenger) =>
                   \E push \in last'.pushes :
                       /\ push.to = passenger
                       /\ push.type = "DRIVER_RESPONSE"
                       /\ push.status = "ACCEPTED"
                       /\ push.ride_id = ride_id
                       /\ push.driver_username = acceptor
                       /\ push.peer <=> PeerAnnounced(acceptor)]_vars

\* C17: a DRIVER_RESPONSE {DENIED} of driver d on a PENDING ride removes d's
\* own ride_offers row for the ride and no other row, leaves the ride PENDING
\* without a driver, and pushes DRIVER_RESPONSE {DENIED} to the passenger.
C17_DenyRemovesOwnOffer ==
    [][(/\ last'.req.type = "DRIVER_RESPONSE"
        /\ last'.req.status = "DENIED"
        /\ last'.req.driver_id # NULL
        /\ get_ride_by_id(last'.req.ride_id).status = "PENDING") =>
         LET ride_id == last'.req.ride_id
             d == last'.req.driver_id
         IN  /\ offers' = offers \ {<<ride_id, d>>}
             /\ rides' = rides
             /\ rides[ride_id].driver_id = NULL
             /\ Connected(rides[ride_id].passenger_id) =>
                   \E push \in last'.pushes :
                       /\ push.to = rides[ride_id].passenger_id
                       /\ push.type = "DRIVER_RESPONSE"
                       /\ push.status = "DENIED"
                       /\ push.ride_id = ride_id]_vars

\* C18: CANCEL_RIDE on a stored ride that is not COMPLETED sets its status
\* to CANCELLED, is answered CANCEL_RIDE_OK and pushes RIDE_CANCELLED to the
\* ride's passenger and, when it has one, its driver; on a COMPLETED ride, a
\* missing ride_id or an unknown ride it is answered CANCEL_RIDE_FAIL with a
\* reason and no table changes.
C18_CancelRide ==
    [][last'.req.type = "CANCEL_RIDE" =>
         LET ride_id == last'.req.ride_id
             ride == get_ride_by_id(ride_id)
         IN  IF ride.status \notin {"NONE", "COMPLETED"}
             THEN /\ rides' = [rides EXCEPT ![ride_id].status = "CANCELLED"]
                  /\ last'.type = "CANCEL_RIDE_OK"
                  /\ \A party \in {ride.passenger_id, ride.driver_id} \ {NULL} :
                        Connected(party) =>
                            Pushed(party, "RIDE_CANCELLED", ride_id)
             ELSE /\ last'.type = "CANCEL_RIDE_FAIL"
                  /\ last'.status \in {"ride_id missing", "ride not found",
                                       "ride already completed"}
                  /\ UNCHANGED <<users, schedules, rides, offers, ratings,
                                 messages>>]_vars

\* C19: whatever request the server has read from a connection, it has
\* written one response to that connection (the handler did not raise), and
\* the response's type is one the ApiClient method sending that request type
\* waits for, so the caller does not run into its timeout.
C19_AlwaysAnswered ==
    last.req.type # "NONE" =>
        /\ last.type # "EXCEPTION"
        /\ Expected(last.req.type) # {} => last.type \in Expected(last.req.type)

\* C20: in the step in which the reader thread stops, having seen the end
\* of the connection (peer closed, receive error or a line it cannot parse),
\* it appends exactly one CONNECTION_LOST to the event queue; the events
\* queued before stay in place and the stored username and user_id are
\* not touched.
C20_ConnectionLostQueued ==
    [][(reader = "running" /\ reader' # "running") =>
          /\ async_events' = Append(async_events, ConnectionLost)
          /\ session' = session]_vars

\* The ApiClient is in the Connected state.
IsConnected == has_sock /\ connected

\* Caller c enters _send_and_wait in this step.
Calls(c) == cpc[c] = "idle" /\ call'[c].id = n_calls + 1

\* C21: a call made while the client is not Connected (before connect(),
\* after disconnect(), after the reader saw the connection end) raises "Not
\* connected to backend." in that very step, writes nothing to the socket and
\* registers no expectation; and the client becomes Connected only in a step
\* of connect().
C21_CallsOnlyWhenConnected ==
    [][/\ \A c \in Callers :
            (Calls(c) /\ ~IsConnected) =>
                /\ outcome'[c] = Raised("NotConnected")
                /\ cpc'[c] = "idle"
                /\ outbox' = outbox
                /\ wait_types' = wait_types
                /\ UNCHANGED <<connected, has_sock, link>>
       /\ (~IsConnected /\ IsConnected') => n_conns' = n_conns + 1]_vars

\* A call has been refused after disconnect().
C21_Witness ==
    /\ outcome[1] = Raised("NotConnected")
    /\ ~has_sock
    /\ reader # "none"

(***************************************************************************)
(* Properties of the client multiplexer.                                   *)
(***************************************************************************)
\* Caller c reaches the in-flight check in this step while a call is in flight.
ChecksWhileInFlight(c) ==
    cpc[c] = "lock" /\ cpc'[c] # "lock" /\ wait_types # {}

\* C5: a call that starts while another call's expectation is registered
\* raises the busy error; the step writes nothing to the socket and leaves the
\* expected-type set, the stored response, the event and the other caller as
\* they were.  And when the two calls are all there is, the first call, if
\* it returns a message, returns the response to its own request.
C5_SecondCallRejected ==
    /\ [][\A c \in Callers : ChecksWhileInFlight(c) =>
            /\ outcome'[c] = Raised("Busy")
            /\ cpc'[c] = "idle"
            /\ UNCHANGED <<wait_types, wait_response, wait_event, outbox,
                           inbox, async_events, connected>>
            /\ \A d \in Callers \ {c} :
                  /\ cpc'[d] = cpc[d]
                  /\ call'[d] = call[d]
                  /\ outcome'[d] = outcome[d]]_vars
    /\ [](\A c, d \in Callers :
            (/\ n_calls = 2 /\ c # d
             /\ outcome[d] = Raised("Busy")
             /\ IsMessage(outcome[c]))
            => /\ outcome[c].re = call[c].id
               /\ outcome[c].type \in call[c].expected)

\* The second of two calls was rejected as busy and the first has returned
\* the response to its own request.
C5_Witness ==
    \E c, d \in Callers :
      /\ c # d
      /\ call[d].id > call[c].id
      /\ outcome[d] = Raised("Busy")
      /\ IsMessage(outcome[c])
      /\ outcome[c].re = call[c].id

\* The reader takes a message off the connection in this step.
ReaderTakes ==
    inbox # <<>> /\ inbox' = Tail(inbox) /\ reader' = "running"

\* While a call is in flight, a message of a type the call does not expect is
\* put on the event queue and the call keeps waiting; with no call in flight
\* every message is put on the event queue.
C6_UnexpectedQueued ==
    [][(ReaderTakes /\ Head(inbox).type \notin wait_types) =>
          /\ async_events' = Append(async_events, Head(inbox))
          /\ UNCHANGED <<wait_types, wait_response, wait_event, cpc,
                         outcome>>]_vars

\* C6: a message whose type is not in a call's expected-response set is
\* never returned as that call's result.
C6_NeverReturnedUnexpected ==
    \A c \in Callers :
        IsMessage(outcome[c]) => outcome[c].type \in call[c].expected

\* C7: a call blocked in wait() leaves it either woken by a matched message
\* or by the timeout; the call that timed out raises the timeout error and
\* leaves the expected-type set empty, so that the in-flight check of the next
\* call passes.
C7_TimeoutClears ==
    [][\A c \in Callers :
         /\ (cpc[c] = "blocked" /\ cpc'[c] # "blocked") =>
               \/ cpc'[c] = "timedout"
               \/ cpc'[c] = "woken" /\ ReaderTakes /\ Head(inbox).type \in wait_types
         /\ (cpc[c] = "timedout" /\ cpc'[c] # "timedout") =>
               /\ outcome'[c] = Raised("Timeout")
               /\ cpc'[c] = "idle"
               /\ wait_types' = {}]_vars

\* A call has timed out and a later call of another thread has passed the
\* in-flight check.
C7_Witness ==
    \E c, d \in Callers :
      /\ c # d
      /\ outcome[c] = Raised("Timeout")
      /\ call[d].id > call[c].id
      /\ cpc[d] = "send"

\* C8: a call that fails with a connectivity error (the send raises, or the
\* wait times out on a lost connection) leaves the expected-type set empty.
C8_ExpectationCleared ==
    [][\A c \in Callers :
         (/\ cpc[c] # "idle" /\ cpc'[c] = "idle"
          /\ outcome'[c].type \in {"OSError", "Timeout"})
         => wait_types' = {}]_vars

(***************************************************************************)
(* Properties of the framing.                                              *)
(***************************************************************************)
\* Every write so far was a send_json.
OnlySendJson == \A i \in DOMAIN written : written[i] \in FrameMsgs

\* C22: when every write is a send_json, then however recv divides the
\* bytes, the recv_json calls return the messages written, in order and
\* each once: what they returned so far is the beginning of what was
\* written, and all of it once no byte is in flight or in buf.  No byte
\* after a newline is thrown away.
C22_FramesRoundTrip ==
    (OnlySendJson /\ sock[1] = "open") =>
        /\ Len(returned) <= Len(written)
        /\ \A i \in DOMAIN returned : returned[i] = written[i]
        /\ (wire = <<>> /\ buf = <<>>) => returned = written

\* C23: recv_json never raises: whatever the bytes, each call returns a
\* message or None.  And once it returned None, handle_client has ended:
\* the connection's presence entry is gone and its socket closed.
C23_RecvNeverRaises ==
    /\ \A i \in DOMAIN returned : returned[i] \in FrameMsgs \cup {"None"}
    /\ (returned # <<>> /\ returned[Len(returned)] = "None") =>
          /\ sock[1] = "closed"
          /\ \A i \in DOMAIN clients : clients[i].conn # 1

\* Byte i of the wire is where a frame has it: the text of a message at the
\* start or after a newline, its brace after the text, the newline after
\* the brace.
InFrame(i) ==
    LET before == IF i = 1 THEN "\n" ELSE wire[i - 1]
    IN  IF wire[i] = "\n" THEN before = "}"
        ELSE IF wire[i] = "}" THEN before \notin {"}", "\n"}
        ELSE before = "\n"

\* C24: the bytes of two frames written to one connection by concurrent
\* senders never interleave: what is on the wire is whole frames, one after
\* the other, and at most the beginning of one more.
C24_FramesNeverInterleave == \A i \in DOMAIN wire : InFrame(i)

(***************************************************************************)
(* Properties of the send buffers.                                         *)
(***************************************************************************)
\* C25: no handler thread waits on a write to another client's connection
\* while it holds db_lock, so a recipient that does not read its socket
\* keeps no handler from completing and no other request from its response.
C25_NoWaitUnderLock ==
    \A t \in Conns :
        (stuck[t] # NotStuck /\ stuck[t].on # t) => db_lock # t

(***************************************************************************)
(* Properties of the presence map.                                         *)
(***************************************************************************)
\* C26: clients has an entry for a user exactly when an open connection
\* has that user as its login: the entry is not deleted when another
\* connection of the same user closes, and none stays behind when its
\* connection closes, logs in as another user or fails a login.
C26_PresenceExact ==
    \A u \in Users : HasClient(u) <=> Connected(u)

(***************************************************************************)
(* Properties of the user interface thread.                                *)
(***************************************************************************)
\* How often message k is in a sequence of message numbers.
Count(seq, k) == Cardinality({i \in DOMAIN seq : seq[i] = k})

\* The messages send_message is through with.
Said == {k \in 1..chat.n : k # chat.pending}

\* Why the relay of message k wrote nothing, or "NONE".
Refused(k) ==
    IF \E i \in DOMAIN chat.boxes :
          /\ chat.boxes[i].k = k
          /\ chat.boxes[i].why \in {"NotConnected", "Busy", "OSError"}
    THEN "REFUSED" ELSE "NONE"

AllEvents == drained \o drain.events \o async_events

IsPrefix(s, t) == Len(s) <= Len(t) /\ SubSeq(t, 1, Len(s)) = s

\* C28: drain_events never blocks and returns the queued events in the
\* order the reader queued them, each once over the drains: in every step
\* the events returned, held and queued so far stay as they are, in their
\* order, new ones coming after them; a drain in progress can always go
\* on; and when it returns, what it held is returned and the queue is
\* empty but for what comes later.
C28_DrainFifoOnce ==
    [][/\ IsPrefix(AllEvents, AllEvents')
       /\ drain.running => ENABLED (DrainGet \/ DrainReturn)
       /\ (drain.running /\ ~drain'.running) =>
             /\ drained' = drained \o drain.events
             /\ async_events' = <<>>]_vars

\* Two events were returned by drains and a later one is on the queue.
C28_Witness ==
    /\ Len(drained) >= 2
    /\ ~drain.running
    /\ async_events # <<>>
    /\ \A i \in DOMAIN drained : drained[i].n < async_events[1].n

(***************************************************************************)
(* Properties of the spellings find_drivers accepts.                       *)
(***************************************************************************)
\* C29: find_drivers compares direction and area insensitively to letter
\* case and to '_' versus ' ' on both sides: a driver whose schedule entry
\* is in the call's window, and whose direction and area differ from the
\* call's only in case or in '_' versus ' ', is returned.
C29_SpellingInsensitive ==
    found.done =>
        \A s \in schedules :
            ( /\ users[s.user_id].is_driver
              /\ InWindow(s, query.day, query.time)
              /\ SameText(s.direction, query.direction)
              /\ SameText(s.area, query.area) )
            => s.user_id \in found.ids

(***************************************************************************)
(* Properties of late responses.                                           *)
(***************************************************************************)
\* Message m answers a call that has timed out: the call caller d made last.
AnswersTimedOut(m, d) ==
    /\ outcome[d] = Raised("Timeout")
    /\ cpc[d] = "idle"
    /\ m.re = call[d].id

\* C30: the response to a call that has already timed out is put on the
\* event queue when the reader takes it, and is never returned as the
\* result of a later call, whatever response types the later call expects.
C30_LateResponseQueued ==
    /\ [][\A d \in Callers :
            (ReaderTakes /\ AnswersTimedOut(Head(inbox), d)) =>
               /\ async_events' = Append(async_events, Head(inbox))
               /\ UNCHANGED <<wait_types, wait_response, wait_event>>]_vars
    /\ [](\A c, d \in Callers :
            IsMessage(outcome[c]) => ~AnswersTimedOut(outcome[c], d))

(***************************************************************************)
(* Properties of the parties of a ride.                                    *)
(***************************************************************************)
\* The row of the ratings table the rater of request r wrote for its ride.
RatingRowOf(r) ==
    ratings'[CHOOSE i \in 1..Len(ratings') :
                /\ ratings'[i].ride_id = r.ride_id
                /\ ratings'[i].rater_user_id = r.rater_user_id]

\* C31: UPDATE_RATING by a user who is neither the passenger nor the driver
\* of the ride is answered UPDATE_RATING_FAIL and writes no row; a row
\* written by the passenger names the ride's driver with role 'driver', one
\* written by the driver names the passenger with role 'passenger': the
\* rated user is the other party of the ride, never nobody and never the
\* rater.
C31_RatesOtherParty ==
    [][last'.req.type = "UPDATE_RATING" =>
         LET r == last'.req
             ride == get_ride_by_id(r.ride_id)
         IN  /\ (\/ ride.status = "NONE"
                 \/ r.rater_user_id \notin {ride.passenger_id, ride.driver_id})
                  => /\ last'.type = "UPDATE_RATING_FAIL"
                     /\ ratings' = ratings
             /\ last'.type = "UPDATE_RATING_OK" =>
                  /\ r.rater_user_id = ride.passenger_id =>
                        /\ RatingRowOf(r).rated_user_id = ride.driver_id
                        /\ RatingRowOf(r).role = "driver"
                  /\ r.rater_user_id # ride.passenger_id =>
                        /\ RatingRowOf(r).rated_user_id = ride.passenger_id
                        /\ RatingRowOf(r).role = "passenger"
                  /\ RatingRowOf(r).rated_user_id \in Users \ {r.rater_user_id}]_vars

\* C33: a driver becomes the driver of a ride only if that driver holds an
\* offer for it: a DRIVER_RESPONSE {ACCEPTED} naming a driver_id without a
\* ride_offers row for the ride leaves the ride's driver_id and status as
\* they were.
C33_AcceptNeedsOffer ==
    [][\A i \in DOMAIN rides :
          (/\ last'.req.type = "DRIVER_RESPONSE"
           /\ last'.req.ride_id = i
           /\ <<i, last'.req.driver_id>> \notin offers)
          => /\ rides'[i].driver_id = rides[i].driver_id
             /\ rides'[i].status = rides[i].status]_vars

\* C40: the driver of a ride is never its passenger, and no offer for a
\* ride is held by the ride's passenger.
C40_DriverIsNotPassenger ==
    /\ \A i \in DOMAIN rides : rides[i].driver_id # rides[i].passenger_id
    /\ \A o \in offers : rides[o[1]].passenger_id # o[2]

(***************************************************************************)
(* Properties of the chat relay.                                           *)
(***************************************************************************)
\* C32: a SEND_MESSAGE from a connection that has logged in, to an existing
\* user, appends one row holding the sender, the receiver, the body and the
\* attachment of the request, and pushes CHAT_MESSAGE to the recipient if
\* connected; FETCH_MESSAGES returns the rows stored between the two users,
\* so the message comes back with its attachment.
C32_RelayPersists ==
    [][/\ (/\ last'.req.type = "SEND_MESSAGE"
           /\ last'.req.to \in Users
           /\ last'.status # "Not authenticated")
          => /\ Len(messages') = Len(messages) + 1
             /\ LET row == messages'[Len(messages')]
                IN  /\ row.receiver_id = last'.req.to
                    /\ \E t \in Conns : username[t] = row.sender_id
                    /\ row.body = last'.req.message
                    /\ row.attachment = last'.req.attachment
             /\ Connected(last'.req.to) =>
                  \E m \in last'.pushes :
                      m.to = last'.req.to /\ m.type = "CHAT_MESSAGE"
       /\ (last'.req.type = "FETCH_MESSAGES" /\ fetched' # fetched)
          => \A i \in DOMAIN messages :
                <<messages[i].sender_id, messages[i].receiver_id>>
                    \in {<<last'.req.user_id, last'.req.partner_id>>,
                         <<last'.req.partner_id, last'.req.user_id>>}
                => \E j \in DOMAIN fetched'.rows : fetched'.rows[j] = messages[i]]_vars

(***************************************************************************)
(* Properties of the stored response.                                      *)
(***************************************************************************)
\* C34: a message the reader has stored for the call in flight stays in
\* self._wait_response until the caller woken for it takes it, and that
\* caller returns exactly that message: no other step, the start of
\* another thread's call included, erases or replaces it.
C34_StoredResponseKept ==
    [][(wait_response # NoneMsg /\ wait_response' # wait_response) =>
          \E c \in Callers :
             /\ cpc[c] = "woken" /\ cpc'[c] = "idle"
             /\ outcome'[c] = wait_response]_vars

\* The messages on the event queue.
Queued(q) == {q[i] : i \in DOMAIN q}

\* C35: no message the reader takes off the connection is lost: it is put
\* on the event queue or stored as the response of the call in flight, and a
\* stored response always has a caller that is going to return it, also
\* when it arrives between the timeout of the call's wait and the reset of
\* the call's expectation.
C35_NoMessageLost ==
    /\ [][ReaderTakes =>
            \/ Head(inbox) \in Queued(async_events') \ Queued(async_events)
            \/ wait_response' = Head(inbox) /\ wait_response = NoneMsg]_vars
    /\ [](wait_response # NoneMsg =>
            \E c \in Callers : cpc[c] \in {"send", "wait", "blocked", "woken"})

(***************************************************************************)
(* Properties of a cancel racing an accept.                                *)
(***************************************************************************)
\* Thread t leaves its `with db_lock` block in this step, having handled a
\* request of the given type for ride i.
Runs(t, type, i) ==
    /\ pc[t] = "locked" /\ pc'[t] = "idle"
    /\ req[t].type = type /\ req[t].ride_id = i

\* C36: a CANCEL_RIDE and an accept of a PENDING ride handled concurrently
\* leave the ride CANCELLED in either order.  The cancel of a PENDING or
\* ACCEPTED ride is answered CANCEL_RIDE_OK and sets CANCELLED, keeping the
\* driver_id; the accept of a PENDING ride is answered ACCEPTED; and the
\* accept handled after the cancel is answered CLOSED and changes neither
\* the ride nor the offers.
C36_CancelWins ==
    [][\A t \in Threads : \A i \in DOMAIN rides :
         /\ (Runs(t, "CANCEL_RIDE", i) /\ rides[i].status \in {"PENDING", "ACCEPTED"})
              => /\ last'.type = "CANCEL_RIDE_OK"
                 /\ rides'[i].status = "CANCELLED"
                 /\ rides'[i].driver_id = rides[i].driver_id
         /\ (Runs(t, "DRIVER_RESPONSE", i) /\ req[t].status = "ACCEPTED")
              => IF rides[i].status = "PENDING"
                 THEN /\ last'.status = "ACCEPTED"
                      /\ rides'[i].status = "ACCEPTED"
                 ELSE /\ last'.status = "CLOSED"
                      /\ rides' = rides
                      /\ offers' = offers]_vars

\* The cancel of a PENDING ride has just been answered CANCEL_RIDE_OK while
\* an accept for the same ride, received before that answer, waits for
\* db_lock.
C36_Witness ==
    \E t \in Threads :
      /\ pc[t] = "waiting"
      /\ req[t].type = "DRIVER_RESPONSE" /\ req[t].status = "ACCEPTED"
      /\ last.type = "CANCEL_RIDE_OK"
      /\ last.req.ride_id = req[t].ride_id
      /\ rides[req[t].ride_id].status = "CANCELLED"
      /\ rides[req[t].ride_id].driver_id = NULL

\* C37: a ride that has left PENDING never returns to PENDING, and a
\* driver_id once set is never changed or cleared, whatever requests
\* follow (accept, deny, start, complete, cancel, rate).
C37_DriverAndPendingFinal ==
    [][\A i \in DOMAIN rides :
          /\ rides[i].status # "PENDING" => rides'[i].status # "PENDING"
          /\ rides[i].driver_id # NULL =>
                rides'[i].driver_id = rides[i].driver_id]_vars

\* A ride with a driver has been cancelled, and an accept by another driver
\* was then answered CLOSED.
C37_Witness ==
    \E i \in DOMAIN rides :
      /\ rides[i].status = "CANCELLED"
      /\ rides[i].driver_id # NULL
      /\ last.req.type = "DRIVER_RESPONSE" /\ last.req.status = "ACCEPTED"
      /\ last.req.ride_id = i
      /\ last.req.driver_id \notin {NULL, rides[i].driver_id}
      /\ last.status = "CLOSED"

(***************************************************************************)
(* Properties of a failing push.                                           *)
(***************************************************************************)
\* The clients entry of user u points at no connection or at a closed one.
Stale(u) ==
    /\ HasClient(u)
    /\ \/ Client(u).conn = NULL
       \/ sock[Client(u).conn] = "closed"

\* C38: an accept whose push to the passenger fails, because the presence
\* map points at a broken or closed connection, is still completed: the
\* ride is ACCEPTED, the requester gets DRIVER_RESPONSE_OK, db_lock is free
\* and no connection is closed by the step.
C38_PushFailureContained ==
    [][\A i \in DOMAIN rides :
          (/\ last'.req.type = "DRIVER_RESPONSE"
           /\ last'.req.status = "ACCEPTED"
           /\ last'.req.ride_id = i
           /\ last'.req.driver_id # NULL
           /\ rides[i].status = "PENDING"
           /\ Stale(rides[i].passenger_id))
          => /\ rides'[i].status = "ACCEPTED"
             /\ last'.type = "DRIVER_RESPONSE_OK"
             /\ db_lock' = NULL
             /\ sock' = sock]_vars


(***************************************************************************)
(* Properties of connecting again.                                         *)
(***************************************************************************)
\* C39: after disconnect() and connect() on the same ApiClient, the step in
\* which the reader thread of the connection before ends leaves the client
\* Connected and the reader of the new connection running, and the client
\* stops being Connected only by disconnect() or when the reader of the new
\* connection sees that connection end.
C39_ReconnectStays ==
    [][/\ (old_reader = "running" /\ old_reader' = "stopped" /\ IsConnected)
            => (IsConnected' /\ reader' = "running")
       /\ (IsConnected /\ ~IsConnected')
            => (~has_sock' \/ (reader = "running" /\ reader' = "stopped"))]_vars

====
